---- MODULE Spec2Model ----
(***************************************************************************)
(* File Merger (extractor.py): the selection tree with its tri-state       *)
(* check-state propagation, the merge serializer, the restore parser and   *)
(* the coordinator with its background workers.                            *)
(*                                                                         *)
(* The specifications share the variables of this module:                  *)
(*   Spec      the selection tree of a completed scan, the user's toggles, *)
(*             select-all / select-none, and a merge that walks the tree;  *)
(*   SpecText  serialization of a tree to the text of an artifact and the  *)
(*             regular-expression parse of that text by restore;           *)
(*   SpecFiles the same with large, binary and unreadable files, writes    *)
(*             that fail and a second restore;                             *)
(*   SpecApp   the coordinator (FileMergerApp) and its worker threads;     *)
(*   SpecIgnore one call of the ignore matcher of the scanner;             *)
(*   SpecScan  one scan of a folder, with ignore patterns, to its end.     *)
(***************************************************************************)
EXTENDS Integers, Sequences, FiniteSets, TLC

\* ---------------------------------------------------------------- bounds
\* Largest number of items (files and directories) in a tree.
MaxNodes == 4
\* Largest number of items in a tree whose text is serialized and restored.
MaxTextNodes == 3
\* Largest length of a file text drawn from the alphabet.
MaxLen == 2

\* ------------------------------------------------------------- Qt values
Checked == "Checked"
PartiallyChecked == "PartiallyChecked"
Unchecked == "Unchecked"

VARIABLES
    items,        \* QTreeWidget items in insertion order: [parent, is_dir];
                  \* parent 0 is the invisibleRootItem
    checkState,   \* checkState(0) of every item
    updating,     \* FileMergerApp.updating, the re-entrancy guard
    lastOp,       \* history: the operation the last step performed
    lastItem,     \* history: the item the last toggle was made on, the list
                  \* the last restore_selected_files was called with
    passes,       \* history: how often the last operation ran the body of
                  \* handle_item_changed, where the signals are modelled
    pc,           \* "select" while the selection is edited, then "merged", then
                  \* "restored", then "again" after a second restore; "app"
                  \* throughout the window-and-workers model, "match" for a
                  \* call of the ignore matcher, "scan" for one scan
    blocks,       \* merge output: the items that got a file block, in order
    visited,      \* merge output: the directories _write_files recursed into
    manifest,     \* merge output: the lines of the File Structure section
    content,      \* the text of every file of the tree, by item
    format,       \* output_settings['format']: "txt" or "md"
    artifact,     \* the text of the merge file
    disk,         \* the files under the restore destination: path -> text
    outcome,      \* what restore_files returned
    max_size_spin,  \* max_size_spin.value(): the size ceiling in MB
    unreadable,   \* the files of the tree that open() raises on
    written,      \* merge output: what _write_single_file did with each file
    merge_file,   \* the file chosen for restore: "merged", "other", "unreadable"
    unwritable,   \* the paths under the destination that open(.., 'w') raises on
    dest_created, \* os.makedirs(output_directory) was run by restore
    fs,                   \* the directories on disk: path -> [dirs, files]
    ignore_list,          \* the patterns of ignore_text, stripped, none empty
    include_hidden,       \* include_hidden_check.isChecked()
    probe,                \* the path should_ignore_path is called with
    ignored,              \* what that call returned: <<>> before it, <<bool>>
    root_directory,       \* FileMergerApp.root_directory, None when no folder
    pending_selection,    \* FileMergerApp._pending_selection, with the scan
                          \* open_project started for it as history
    threads,              \* every worker thread object created so far
    processor_thread,     \* FileMergerApp.processor_thread: 0 (None) or a thread
    tree_loader_thread,   \* FileMergerApp.tree_loader_thread
    restorer_thread,      \* FileMergerApp.restorer_thread
    queue,                \* signals emitted by workers, queued for the main thread
    objs,                 \* the QTreeWidgetItem objects created for the tree
    tree_kids,            \* the children of each item, 0 the invisible root
    items_by_path,        \* FileMergerApp.items_by_path: full path -> item
    pending_items,        \* FileMergerApp.pending_items: (item, parent path)
    merge_button,         \* merge_button.isEnabled()
    browse_button,        \* browse_button.isEnabled()
    progress_bar,         \* progress_bar.isVisible()
    cancel_button         \* cancel_button.isVisible()

treeVars == <<items, checkState, updating, lastOp, lastItem, passes>>
mergeVars == <<pc, blocks, visited, manifest>>
faultVars == <<max_size_spin, unreadable, written, merge_file, unwritable, dest_created>>
textVars == <<content, format, artifact, disk, outcome, faultVars>>
threadVars == <<threads, processor_thread, tree_loader_thread, restorer_thread, queue>>
widgetVars == <<objs, tree_kids, items_by_path, pending_items>>
buttonVars == <<merge_button, browse_button, progress_bar, cancel_button>>
scanVars == <<fs, ignore_list, include_hidden, probe, ignored>>
appVars == <<root_directory, pending_selection, threadVars, widgetVars, buttonVars, scanVars>>
vars == <<items, checkState, updating, lastOp, lastItem, passes, pc, blocks, visited,
          manifest,
          content, format, artifact, disk, outcome,
          max_size_spin, unreadable, written, merge_file, unwritable, dest_created,
          fs, ignore_list, include_hidden, probe, ignored,
          root_directory, pending_selection, threads, processor_thread,
          tree_loader_thread,
          restorer_thread, queue, objs, tree_kids, items_by_path, pending_items,
          merge_button, browse_button, progress_bar, cancel_button>>

\* ------------------------------------------------------------ tree shape
Range(s) == {s[i] : i \in DOMAIN s}

\* The trees a completed scan can build: every item but a top-level one hangs
\* under a directory, and the items are numbered so that a parent comes before
\* its children and the children of one parent in their order in the tree. A
\* directory can stand after a file of the same parent: a directory that waited
\* in pending_items is added behind the children its parent already has
\* (process_pending_items).
IsTree(its) ==
    \A n \in DOMAIN its :
      /\ its[n].parent < n
      /\ its[n].parent # 0 => its[its[n].parent].is_dir

TreeShapes ==
    UNION {{its \in [1..k -> [parent : 0..(k - 1), is_dir : BOOLEAN]] : IsTree(its)}
           : k \in 1..MaxNodes}

ItemIds(its) == DOMAIN its

\* tree_item.child(0..childCount()-1): the children of item p, in order.
Children(its, p) ==
    SelectSeq([i \in 1..Len(its) |-> i], LAMBDA n : its[n].parent = p)

RECURSIVE Ancestors(_, _)
Ancestors(its, n) ==
    IF its[n].parent = 0 THEN {}
    ELSE {its[n].parent} \cup Ancestors(its, its[n].parent)

Descendants(its, n) == {d \in DOMAIN its : n \in Ancestors(its, d)}

\* ----------------------------------------------------- tri-state propagation
\* check_all_children restricted to the direct children (a non-recursive walk).
check_all_children_shallow(its, cs, item, check_state) ==
    [n \in DOMAIN cs |-> IF its[n].parent = item THEN check_state ELSE cs[n]]

\* FileMergerApp.check_all_children: every child is set, then walked itself.
RECURSIVE check_all_children(_, _, _, _)
check_all_children(its, cs, item, check_state) ==
    LET kids == Children(its, item)
        RECURSIVE loop(_, _)
        loop(c, i) ==
            IF i > Len(kids) THEN c
            ELSE loop(check_all_children(its, [c EXCEPT ![kids[i]] = check_state],
                                         kids[i], check_state), i + 1)
    IN  loop(cs, 1)

\* The state update_parent_state gives a parent whose children have states cs.
ParentStateFor(its, cs, parent) ==
    LET kids == Children(its, parent)
        checked_count == Cardinality({i \in 1..Len(kids) : cs[kids[i]] = Checked})
        partially_checked_count ==
            Cardinality({i \in 1..Len(kids) : cs[kids[i]] = PartiallyChecked})
        total_count == Len(kids)
    IN  IF checked_count = total_count THEN Checked
        ELSE IF checked_count = 0 /\ partially_checked_count = 0 THEN Unchecked
        ELSE PartiallyChecked

\* update_parent_state that stops at the direct parent.
update_parent_state_once(its, cs, parent) ==
    IF parent = 0 THEN cs
    ELSE [cs EXCEPT ![parent] = ParentStateFor(its, cs, parent)]

\* FileMergerApp.update_parent_state: recompute the parent, then its parent.
RECURSIVE update_parent_state(_, _, _)
update_parent_state(its, cs, parent) ==
    IF parent = 0 THEN cs
    ELSE update_parent_state(its,
                             [cs EXCEPT ![parent] = ParentStateFor(its, cs, parent)],
                             its[parent].parent)

\* FileMergerApp.handle_item_changed(item, 0) with the guard open: the item's
\* new state goes down to its descendants, then the ancestors are recomputed.
\* cs already holds the item's new state.
handle_item_changed(its, cs, item) ==
    LET check_state == cs[item]
        down == IF check_state \in {Checked, Unchecked}
                THEN check_all_children(its, cs, item, check_state)
                ELSE cs
    IN  update_parent_state(its, down, its[item].parent)

NoPasses == [handler |-> 0, down |-> 0, up |-> 0]

\* The state a click would give an item with Qt.ItemIsUserTristate set: the
\* three states in turn.
ClickedStateTristate(s) ==
    IF s = Checked THEN Unchecked
    ELSE IF s = Unchecked THEN PartiallyChecked ELSE Checked

\* The state a click on the check box gives an item that is not user-tristate:
\* Checked becomes Unchecked, anything else becomes Checked (Qt's delegate).
ClickedState(s) == IF s = Checked THEN Unchecked ELSE Checked

\* select_all_files / select_no_files: under the guard, every top-level item
\* is set and its subtree walked.
SetAll(its, cs, check_state) ==
    LET tops == Children(its, 0)
        RECURSIVE loop(_, _)
        loop(c, i) ==
            IF i > Len(tops) THEN c
            ELSE loop(check_all_children(its, [c EXCEPT ![tops[i]] = check_state],
                                         tops[i], check_state), i + 1)
    IN  loop(cs, 1)

\* -------------------------------------------------------------- the merge
\* FileProcessor._write_files: a Checked file gets a block, a directory that is
\* not Unchecked is walked. Returns the blocks and the directories walked.
RECURSIVE write_files(_, _, _, _)
write_files(its, cs, tree_item, acc) ==
    LET kids == Children(its, tree_item)
        RECURSIVE loop(_, _)
        loop(a, i) ==
            IF i > Len(kids) THEN a
            ELSE LET child == kids[i] IN
                 IF cs[child] = Checked /\ ~its[child].is_dir
                 THEN loop([a EXCEPT !.blocks = Append(@, child)], i + 1)
                 ELSE IF its[child].is_dir /\ cs[child] # Unchecked
                 THEN loop(write_files(its, cs, child,
                                       [a EXCEPT !.visited = @ \cup {child}]), i + 1)
                 ELSE loop(a, i + 1)
    IN  loop(acc, 1)

\* _write_files that walks Checked directories only.
WriteFilesCheckedOnly(its, cs) ==
    LET RECURSIVE walk(_, _)
        walk(tree_item, acc) ==
            LET kids == Children(its, tree_item)
                RECURSIVE loop(_, _)
                loop(a, i) ==
                    IF i > Len(kids) THEN a
                    ELSE LET child == kids[i] IN
                         IF cs[child] = Checked /\ ~its[child].is_dir
                         THEN loop([a EXCEPT !.blocks = Append(@, child)], i + 1)
                         ELSE IF its[child].is_dir /\ cs[child] = Checked
                         THEN loop(walk(child, [a EXCEPT !.visited = @ \cup {child}]),
                                   i + 1)
                         ELSE loop(a, i + 1)
            IN  loop(acc, 1)
    IN  walk(0, [blocks |-> <<>>, visited |-> {}])

\* The content pass of process_files over the whole tree.
WriteFiles(its, cs) == write_files(its, cs, 0, [blocks |-> <<>>, visited |-> {}])

\* _count_selected_files that walks Checked directories only.
RECURSIVE count_selected_files_checked_only(_, _, _)
count_selected_files_checked_only(its, cs, tree_item) ==
    LET kids == Children(its, tree_item)
        RECURSIVE loop(_, _)
        loop(count, i) ==
            IF i > Len(kids) THEN count
            ELSE LET child == kids[i] IN
                 IF cs[child] = Checked /\ ~its[child].is_dir
                 THEN loop(count + 1, i + 1)
                 ELSE IF its[child].is_dir /\ cs[child] = Checked
                 THEN loop(count + count_selected_files_checked_only(its, cs, child),
                           i + 1)
                 ELSE loop(count, i + 1)
    IN  loop(0, 1)

\* FileProcessor._count_selected_files with should_cancel never set.
RECURSIVE count_selected_files(_, _, _)
count_selected_files(its, cs, tree_item) ==
    LET kids == Children(its, tree_item)
        RECURSIVE loop(_, _)
        loop(count, i) ==
            IF i > Len(kids) THEN count
            ELSE LET child == kids[i] IN
                 IF cs[child] = Checked /\ ~its[child].is_dir
                 THEN loop(count + 1, i + 1)
                 ELSE IF its[child].is_dir /\ cs[child] # Unchecked
                 THEN loop(count + count_selected_files(its, cs, child), i + 1)
                 ELSE loop(count, i + 1)
    IN  loop(0, 1)

\* The glyphs of the tree summary.
CONNECTOR_LAST == "L-- "    \* the corner connector of a last child
CONNECTOR_TEE == "|-- "     \* the tee connector of any other child
PREFIX_BLANK == "    "      \* under a last child
PREFIX_BAR == "|   "        \* under any other child
ICON_CHECKED == "v"         \* the check mark
ICON_PARTIAL == "o"         \* the half circle
ICON_UNCHECKED == "x"       \* the cross

status_icon(check_state) ==
    IF check_state = Checked THEN ICON_CHECKED
    ELSE IF check_state = PartiallyChecked THEN ICON_PARTIAL
    ELSE ICON_UNCHECKED

\* _write_tree_summary descending into every directory, whatever its state.
RECURSIVE write_tree_summary_every_directory(_, _, _, _)
write_tree_summary_every_directory(its, cs, tree_item, prefix) ==
    LET kids == Children(its, tree_item)
        RECURSIVE loop(_, _)
        loop(lines, index) ==
            IF index > Len(kids) THEN lines
            ELSE LET child == kids[index]
                     is_last_child == index = Len(kids)
                     line == [prefix |-> prefix,
                              connector |-> IF is_last_child THEN CONNECTOR_LAST
                                            ELSE CONNECTOR_TEE,
                              status_icon |-> status_icon(cs[child]),
                              name |-> child,
                              size |-> ~its[child].is_dir /\ cs[child] = Checked]
                     new_prefix == Append(prefix, IF is_last_child THEN PREFIX_BLANK
                                                  ELSE PREFIX_BAR)
                 IN  IF its[child].is_dir
                     THEN loop(Append(lines, line)
                               \o write_tree_summary_every_directory(its, cs, child,
                                                                     new_prefix),
                               index + 1)
                     ELSE loop(Append(lines, line), index + 1)
    IN  loop(<<>>, 1)

\* FileProcessor._write_tree_summary with should_cancel never set: the lines
\* written for the children of tree_item. A line names its item; size tells
\* whether the size of the file follows the name.
RECURSIVE write_tree_summary(_, _, _, _)
write_tree_summary(its, cs, tree_item, prefix) ==
    LET kids == Children(its, tree_item)
        RECURSIVE loop(_, _)
        loop(lines, index) ==
            IF index > Len(kids) THEN lines
            ELSE LET child == kids[index]
                     is_last_child == index = Len(kids)
                     line == [prefix |-> prefix,
                              connector |-> IF is_last_child THEN CONNECTOR_LAST
                                            ELSE CONNECTOR_TEE,
                              status_icon |-> status_icon(cs[child]),
                              name |-> child,
                              size |-> ~its[child].is_dir /\ cs[child] = Checked]
                     new_prefix == Append(prefix, IF is_last_child THEN PREFIX_BLANK
                                                  ELSE PREFIX_BAR)
                 IN  IF its[child].is_dir /\ cs[child] # Unchecked
                     THEN loop(Append(lines, line)
                               \o write_tree_summary(its, cs, child, new_prefix),
                               index + 1)
                     ELSE loop(Append(lines, line), index + 1)
    IN  loop(<<>>, 1)

\* --------------------------------------------------- the persisted selection
\* FileMergerApp.get_selected_files: the Checked files in the order of the
\* walk, which enters every item. An item stands for its relative path.
RECURSIVE collect_selected(_, _, _, _)
collect_selected(its, cs, item, selected) ==
    LET kids == Children(its, item)
        own == IF item # 0 /\ cs[item] = Checked /\ ~its[item].is_dir
               THEN Append(selected, item) ELSE selected
        RECURSIVE loop(_, _)
        loop(sel, i) ==
            IF i > Len(kids) THEN sel
            ELSE loop(collect_selected(its, cs, kids[i], sel), i + 1)
    IN  loop(own, 1)

get_selected_files(its, cs) == collect_selected(its, cs, 0, <<>>)

\* item.setCheckState(0, state) that raises no itemChanged.
setCheckStateSilent(its, cs, item, check_state) ==
    [cs EXCEPT ![item] = check_state]

\* item.setCheckState(0, state) on an item of the tree with the guard open: Qt
\* emits itemChanged, which runs handle_item_changed, only when the state
\* changes.
setCheckState(its, cs, item, check_state) ==
    IF cs[item] = check_state THEN cs
    ELSE handle_item_changed(its, [cs EXCEPT ![item] = check_state], item)

\* FileMergerApp.restore_selected_files: set_checked on every item, parents
\* before children.
RECURSIVE set_checked(_, _, _, _)
set_checked(its, cs, item, selected_set) ==
    LET kids == Children(its, item)
        own == IF item # 0 /\ ~its[item].is_dir
               THEN setCheckState(its, cs, item,
                                  IF item \in selected_set THEN Checked ELSE Unchecked)
               ELSE cs
        RECURSIVE loop(_, _)
        loop(c, i) ==
            IF i > Len(kids) THEN c
            ELSE loop(set_checked(its, c, kids[i], selected_set), i + 1)
    IN  loop(own, 1)

restore_selected_files(its, cs, selected_files) ==
    set_checked(its, cs, 0, selected_files)

\* ------------------------------------------------------- text of an artifact
\* Text is a sequence of atoms; an atom stands for a fixed piece of text that
\* the regular expressions of restore either match whole or not at all.
NL == "NL"                  \* "\n"
SP == "SP"                  \* " "
TAB == "TAB"                \* "\t"
FENCE == "FENCE"            \* three backticks
TICK == "TICK"              \* one backtick
SEP == "=x80"               \* '=' * 80
FILE_KEY == "File: "        \* the plain-text "File: " line start, with its icon
PATH_KEY == "Path: "        \* the plain-text "Path: " line start, with its icon
STATUS_KEY == "Status: "    \* the plain-text "Status: " line start, with its icon
MD_HEADING == "### "        \* the markdown file heading start, with its icon
MD_PATH == "**Path:** "
MD_STATUS == "**Status:** "
CONTENT_MARKER == "File Contents"
LANG_TEXT == "text"

\* basename and path relative to the root of item n; distinct items, distinct paths.
NameAtoms == <<"n1", "n2", "n3", "n4", "n5", "n6">>
PathAtoms == <<"p1", "p2", "p3", "p4", "p5", "p6">>
RelPath(n) == <<PathAtoms[n]>>

\* Characters that occur in file texts besides the ones above.
CTL == "CTL"                \* "\x01": a control character that is no whitespace
NUL == "NUL"                \* "\x00"
CTL300 == "CTL x300"        \* 300 times "\x01"
A699 == "a x699"            \* 699 times "a"
MB == "a x1048576"          \* 1024 * 1024 times "a"

\* [\w\d]
IsWord(x) == x \in {"a", "b", LANG_TEXT, A699, MB}

Drop(t, k) == SubSeq(t, k + 1, Len(t))

Min(S) == CHOOSE x \in S : \A y \in S : x <= y
Max(S) == CHOOSE x \in S : \A y \in S : x >= y

\* The smallest index >= i of an atom of t in S, Len(t) + 1 when there is none.
FirstIn(t, i, S) ==
    LET hits == {j \in i..Len(t) : t[j] \in S}
    IN  IF hits = {} THEN Len(t) + 1 ELSE Min(hits)

\* The smallest index >= i of an atom of t outside S, Len(t) + 1 when none.
FirstNotIn(t, i, S) ==
    LET hits == {j \in i..Len(t) : t[j] \notin S}
    IN  IF hits = {} THEN Len(t) + 1 ELSE Min(hits)

\* t without its leading atoms in S, without its trailing atoms in S.
LStripBy(t, S) == Drop(t, FirstNotIn(t, 1, S) - 1)
RStripBy(t, S) ==
    LET keep == {j \in 1..Len(t) : t[j] \notin S}
    IN  IF keep = {} THEN <<>> ELSE SubSeq(t, 1, Max(keep))

Whitespace == {SP, NL, TAB}
Strip(t) == RStripBy(LStripBy(t, Whitespace), Whitespace)
RStrip(t) == RStripBy(t, Whitespace)

At(t, i) == IF i \in 1..Len(t) THEN t[i] ELSE "<end>"

\* The smallest i >= from with t[i] = x and t[i + 1] = y, 0 when there is none.
FindPair(t, from, x, y) ==
    LET hits == {j \in from..(Len(t) - 1) : t[j] = x /\ t[j + 1] = y}
    IN  IF hits = {} THEN 0 ELSE Min(hits)

NoMatch == [ok |-> FALSE, end |-> 0, path |-> <<>>]

\* Op applied to the value of x, x computed once: a local variable of the code.
With(x, Op(_)) == CHOOSE r \in {Op(v) : v \in {x}} : TRUE

\* ------------------------------------------------------------- serializer
\* FileProcessor._write_header; the time stamp, the root path and the settings
\* are single atoms.
write_header(format_type) ==
    IF format_type = "md"
    THEN <<"# File Merge Report", NL, NL, "**Generated:**", NL, NL,
           "**Source Directory:**", NL, NL>>
    ELSE <<"FILE MERGE REPORT", NL, SEP, NL, NL, "Generated:", NL,
           "Source Directory:", NL, "Output Settings:", NL, NL>>

\* FileProcessor._get_section_header
get_section_header(title, format_type, is_content) ==
    IF format_type = "md"
    THEN IF is_content THEN <<NL, FENCE, NL, NL, "## ", title, NL, NL>>
         ELSE <<NL, "## ", title, NL, NL, FENCE, NL>>
    ELSE <<NL, NL, SEP, NL, title, NL, SEP, NL, NL>>

\* FileProcessor._write_file_header; status <<>> is the empty status.
write_file_header(format_type, n, status) ==
    IF format_type = "md"
    THEN <<NL, MD_HEADING, NameAtoms[n], NL, NL, MD_PATH, TICK>> \o RelPath(n)
         \o <<TICK, NL>>
         \o (IF status # <<>> THEN <<MD_STATUS>> \o status \o <<NL>> ELSE <<>>)
         \o <<NL>>
    ELSE <<NL, SEP, NL, FILE_KEY, NameAtoms[n], NL, PATH_KEY>> \o RelPath(n) \o <<NL>>
         \o (IF status # <<>> THEN <<STATUS_KEY>> \o status \o <<NL>> ELSE <<>>)
         \o <<SEP, NL, NL>>

\* FileProcessor._write_file_content
write_file_content(format_type, text) ==
    IF format_type = "md"
    THEN <<FENCE, LANG_TEXT, NL>> \o text \o <<NL, FENCE, NL, NL>>
    ELSE text \o <<NL, NL>>

\* merge_files: 'max_file_size': self.max_size_spin.value() * 1024 * 1024
MiB == 1048576
\* _is_binary_content looks at content[:1000]
BinaryWindow == 1000

\* The number of characters of an atom; a file text holds one-byte characters
\* only, but for the icon before a key (several characters, more bytes in UTF-8).
CharLen(x) ==
    CASE x = MB -> MiB
      [] x = A699 -> 699
      [] x = CTL300 -> 300
      [] x = SEP -> 80
      [] x = FENCE -> 3
      [] x \in {FILE_KEY, PATH_KEY} -> 11
      [] x = STATUS_KEY -> 15
      [] x = MD_HEADING -> 9
      [] x \in {MD_PATH, MD_STATUS} -> Len(x)
      [] OTHER -> 1
IconBytes(x) ==
    IF x \in {FILE_KEY, PATH_KEY, MD_HEADING} THEN 5
    ELSE IF x = STATUS_KEY THEN 9 ELSE 0

RECURSIVE TextLen(_)
TextLen(text) == IF text = <<>> THEN 0 ELSE CharLen(Head(text)) + TextLen(Tail(text))

\* os.path.getsize of a file with this text
RECURSIVE getsize(_)
getsize(text) ==
    IF text = <<>> THEN 0
    ELSE CharLen(Head(text)) + IconBytes(Head(text)) + getsize(Tail(text))

\* sum(1 for c in content[:limit] if ord(c) < 32 and c not in '\t\n\r')
RECURSIVE NonPrintable(_, _)
NonPrintable(text, limit) ==
    IF text = <<>> \/ limit <= 0 THEN 0
    ELSE (IF Head(text) \in {CTL, CTL300, NUL}
          THEN Min({CharLen(Head(text)), limit}) ELSE 0)
         + NonPrintable(Tail(text), limit - CharLen(Head(text)))

\* _is_binary_content with the ratio taken over the whole content.
is_binary_content_whole(text) ==
    IF TextLen(text) = 0 THEN FALSE
    ELSE IF NUL \in Range(text) THEN TRUE
    ELSE 10 * NonPrintable(text, TextLen(text)) > 3 * TextLen(text)

\* FileProcessor._is_binary_content; n / m > 0.3 on floats is 10 * n > 3 * m.
is_binary_content(text) ==
    IF TextLen(text) = 0 THEN FALSE
    ELSE IF NUL \in Range(text) THEN TRUE
    ELSE 10 * NonPrintable(text, BinaryWindow)
           > 3 * Min({TextLen(text), BinaryWindow})

\* The status texts of _write_single_file, each with its icon and its detail
\* (the formatted size, the message of the exception).
STATUS_TOO_LARGE == "Skipped - File too large"
STATUS_BINARY == "Binary file"
STATUS_ERROR == "Error: "

\* _write_single_file skipping a file from the size ceiling on.
single_file_from_ceiling(text, readable, max_size) ==
    IF getsize(text) >= max_size
    THEN [status |-> <<STATUS_TOO_LARGE>>, opened |-> FALSE, embedded |-> FALSE]
    ELSE IF ~readable
    THEN [status |-> <<STATUS_ERROR>>, opened |-> TRUE, embedded |-> FALSE]
    ELSE IF is_binary_content(text)
    THEN [status |-> <<STATUS_BINARY>>, opened |-> TRUE, embedded |-> FALSE]
    ELSE [status |-> <<>>, opened |-> TRUE, embedded |-> TRUE]

\* What FileProcessor._write_single_file does with a file: the status of its
\* header (<<>> for none), whether it opened the file, whether it wrote its
\* content. readable: open() and read() do not raise.
single_file(text, readable, max_size) ==
    IF getsize(text) > max_size
    THEN [status |-> <<STATUS_TOO_LARGE>>, opened |-> FALSE, embedded |-> FALSE]
    ELSE IF ~readable
    THEN [status |-> <<STATUS_ERROR>>, opened |-> TRUE, embedded |-> FALSE]
    ELSE IF is_binary_content(text)
    THEN [status |-> <<STATUS_BINARY>>, opened |-> TRUE, embedded |-> FALSE]
    ELSE [status |-> <<>>, opened |-> TRUE, embedded |-> TRUE]

\* FileProcessor._write_single_file: the text it writes to the merge file.
write_single_file(format_type, n, text, readable, max_size) ==
    With(single_file(text, readable, max_size), LAMBDA did :
      write_file_header(format_type, n, did.status)
      \o (IF did.embedded THEN write_file_content(format_type, text) ELSE <<>>))

\* The files open() raises on and the size ceiling, when none fails and the
\* spin box is at its default.
NoUnreadable == {}
DefaultMaxSizeSpin == 10

\* _write_files with the exception of a file that cannot be read ending the pass.
RECURSIVE WriteBlocksAbort(_, _, _, _, _)
WriteBlocksAbort(format_type, bl, cont, unread, max_size) ==
    IF bl = <<>> THEN <<>>
    ELSE write_single_file(format_type, Head(bl), cont[Head(bl)],
                           Head(bl) \notin unread, max_size)
         \o (IF Head(bl) \in unread THEN <<>>
             ELSE WriteBlocksAbort(format_type, Tail(bl), cont, unread, max_size))

RECURSIVE WriteBlocks(_, _, _, _, _)
WriteBlocks(format_type, bl, cont, unread, max_size) ==
    IF bl = <<>> THEN <<>>
    ELSE write_single_file(format_type, Head(bl), cont[Head(bl)],
                           Head(bl) \notin unread, max_size)
         \o WriteBlocks(format_type, Tail(bl), cont, unread, max_size)

\* FileProcessor.process_files: header, manifest section, content section. The
\* manifest lines hold no framing of the content section and are one atom.
process_files(format_type, its, cs, cont, unread, max_size) ==
    write_header(format_type)
    \o get_section_header("File Structure", format_type, FALSE)
    \o <<"(manifest)", NL>>
    \o get_section_header(CONTENT_MARKER, format_type, TRUE)
    \o WriteBlocks(format_type, WriteFiles(its, cs).blocks, cont, unread, max_size)

\* ----------------------------------------------------------------- parser
\* A match of the plain-text header_pattern starting at index i of t:
\*   \n={80}\n File: ([^\n]+)\n Path: ([^\n]+)\n(?: Status: [^\n]+\n)?={80}\n
TxtHeaderAt(t, i) ==
    LET e1 == FirstIn(t, i + 4, {NL})       \* end of the File: line
        e2 == FirstIn(t, e1 + 2, {NL})      \* end of the Path: line
        k  == e2 + 1
        e3 == FirstIn(t, k + 1, {NL})       \* end of the Status: line
    IN  IF /\ At(t, i) = NL /\ At(t, i + 1) = SEP /\ At(t, i + 2) = NL
           /\ At(t, i + 3) = FILE_KEY
           /\ e1 > i + 4 /\ e1 <= Len(t)
           /\ At(t, e1 + 1) = PATH_KEY
           /\ e2 > e1 + 2 /\ e2 <= Len(t)
        THEN IF /\ At(t, k) = STATUS_KEY /\ e3 > k + 1 /\ e3 <= Len(t)
                /\ At(t, e3 + 1) = SEP /\ At(t, e3 + 2) = NL
             THEN [ok |-> TRUE, end |-> e3 + 3, path |-> SubSeq(t, e1 + 2, e2 - 1)]
             ELSE IF At(t, k) = SEP /\ At(t, k + 1) = NL
             THEN [ok |-> TRUE, end |-> k + 2, path |-> SubSeq(t, e1 + 2, e2 - 1)]
             ELSE NoMatch
        ELSE NoMatch

\* A match of the markdown header_pattern (re.MULTILINE) starting at index i:
\*   ^### ([^\n]+)\n+\*\*Path:\*\* `([^`]+)`(?:\n\*\*Status:\*\* ([^\n]+))?\n+```[\w\d]*\n
MdHeaderAt(t, i) ==
    LET e1 == FirstIn(t, i + 1, {NL})               \* end of the heading line
        n1 == FirstNotIn(t, e1, {NL})               \* after \n+
        b  == FirstIn(t, n1 + 2, {TICK, FENCE})     \* the backtick closing the path
        k  == b + 1
        e3 == FirstIn(t, k + 2, {NL})               \* end of the Status line
        q  == IF At(t, k) = NL /\ At(t, k + 1) = MD_STATUS /\ e3 > k + 2
              THEN e3 ELSE k
        n2 == FirstNotIn(t, q, {NL})                \* after \n+
        w  == FirstNotIn(t, n2 + 1, {x \in Range(t) : IsWord(x)})  \* after [\w\d]*
    IN  IF /\ (i = 1 \/ At(t, i - 1) = NL)
           /\ At(t, i) = MD_HEADING
           /\ e1 > i + 1 /\ e1 <= Len(t)
           /\ At(t, n1) = MD_PATH /\ At(t, n1 + 1) = TICK
           /\ b > n1 + 2 /\ At(t, b) = TICK
           /\ n2 > q
           /\ At(t, n2) = FENCE
           /\ At(t, w) = NL
        THEN [ok |-> TRUE, end |-> w + 1, path |-> SubSeq(t, n1 + 2, b - 1)]
        ELSE NoMatch

HeaderAt(t, i, md) == IF md THEN MdHeaderAt(t, i) ELSE TxtHeaderAt(t, i)

\* list(re.finditer(header_pattern, content)) from index i on: the matches from
\* left to right, none overlapping an earlier one. Each is [start, end, path],
\* end exclusive.
RECURSIVE FindHeaders(_, _, _)
FindHeaders(t, i, md) ==
    With({j \in i..Len(t) : HeaderAt(t, j, md).ok}, LAMBDA starts :
      IF starts = {} THEN <<>>
      ELSE With(Min(starts), LAMBDA start :
             With(HeaderAt(t, start, md), LAMBDA m :
               <<[start |-> start, end |-> m.end, path |-> m.path]>>
               \o FindHeaders(t, m.end, md))))

\* The text between the end of header i and the start of the next header.
Region(t, headers, i) ==
    SubSeq(t, headers[i].end,
           IF i + 1 <= Len(headers) THEN headers[i + 1].start - 1 ELSE Len(t))

\* while file_content.endswith('\n' + '=' * 80): cut it and rstrip.
RECURSIVE CutTrailingSeparators(_)
CutTrailingSeparators(c) ==
    IF Len(c) >= 2 /\ c[Len(c)] = SEP /\ c[Len(c) - 1] = NL
    THEN With(RStrip(SubSeq(c, 1, Len(c) - 2)), LAMBDA cut : CutTrailingSeparators(cut))
    ELSE c

\* re.search(r'^([\s\S]*?)```[\w\d]*\n([\s\S]*?)\n```', c, re.MULTILINE): the
\* first opening fence of c, ```[\w\d]*\n, that some later \n``` closes, and
\* group(2), the text between the two.
AfterLang(c, o) == FirstNotIn(c, o + 1, {x \in Range(c) : IsWord(x)})
CodeMatchFrom(c, from) ==
    With({o \in from..Len(c) : /\ c[o] = FENCE
                               /\ At(c, AfterLang(c, o)) = NL
                               /\ FindPair(c, AfterLang(c, o) + 1, NL, FENCE) # 0},
         LAMBDA opens :
           IF opens = {} THEN [ok |-> FALSE, group2 |-> <<>>]
           ELSE With(AfterLang(c, Min(opens)), LAMBDA m :
                  [ok |-> TRUE,
                   group2 |-> SubSeq(c, m + 1, FindPair(c, m + 1, NL, FENCE) - 1)]))

\* The fallback of the markdown branch: drop a leading fence, keep what comes
\* before the first "\n```".
FenceFallback(c) ==
    IF c # <<>> /\ Head(c) = FENCE
    THEN With(Tail(c), LAMBDA rest :
           With(FindPair(rest, 1, NL, FENCE), LAMBDA j :
             IF j # 0 THEN SubSeq(rest, 1, j - 1) ELSE rest))
    ELSE c

\* The content the markdown branch extracts from the region of one header.
MdContent(region) ==
    With(Strip(region), LAMBDA file_content :
      With(CodeMatchFrom(file_content, 1), LAMBDA code_match :
        With(IF code_match.ok THEN code_match.group2 ELSE FenceFallback(file_content),
             LAMBDA inner : RStripBy(inner, {TICK, FENCE, NL, SP}))))

\* The plain-text branch without its strip() and its separator loop.
TxtContentRaw(region) == region

\* The content the plain-text branch extracts from the region of one header.
TxtContent(region) ==
    With(Strip(region), LAMBDA file_content : CutTrailingSeparators(file_content))

\* The format test of _extract_file_blocks: is the markdown heading in the text?
LooksMarkdown(t) == MD_HEADING \in Range(t)

\* The (file_path, file_content) pairs of the headers, empty ones left out;
\* content_of(region) is what the branch makes of the text after a header.
\* start, the index where the header of the pair began, is kept as history.
BlocksOf(t, headers, content_of(_)) ==
    With([i \in 1..Len(headers) |->
            With(Region(t, headers, i), LAMBDA region :
              [path |-> Strip(headers[i].path), content |-> content_of(region),
               start |-> headers[i].start])],
         LAMBDA all : SelectSeq(all, LAMBDA b : b.path # <<>> /\ b.content # <<>>))

\* FileRestorer._extract_file_blocks: the (file_path, file_content) pairs.
extract_file_blocks(t) ==
    With(FindHeaders(t, 1, LooksMarkdown(t)), LAMBDA headers :
      IF LooksMarkdown(t) THEN BlocksOf(t, headers, MdContent)
      ELSE BlocksOf(t, headers, TxtContent))

\* content.find("File Contents"): the first index of the marker, 0 if absent.
FindMarker(t) ==
    LET i == FirstIn(t, 1, {CONTENT_MARKER}) IN IF i > Len(t) THEN 0 ELSE i

\* The write loop of restore_files opening the files for append.
RECURSIVE WriteAllAppend(_, _, _)
WriteAllAppend(st, bl, nowrite) ==
    IF bl = <<>> THEN st
    ELSE LET b == Head(bl) IN
         IF b.path \in nowrite THEN WriteAllAppend(st, Tail(bl), nowrite)
         ELSE WriteAllAppend(
                [disk |-> [p \in DOMAIN st.disk \cup {b.path} |->
                             IF p # b.path THEN st.disk[p]
                             ELSE IF p \in DOMAIN st.disk THEN st.disk[p] \o b.content
                             ELSE b.content],
                 restored_count |-> st.restored_count + 1], Tail(bl), nowrite)

\* The write loop of restore_files stopping at the first write that raises.
RECURSIVE WriteAllAbort(_, _, _)
WriteAllAbort(st, bl, nowrite) ==
    IF bl = <<>> THEN st
    ELSE LET b == Head(bl) IN
         IF b.path \in nowrite THEN st
         ELSE WriteAllAbort(
                [disk |-> [p \in DOMAIN st.disk \cup {b.path} |->
                             IF p = b.path THEN b.content ELSE st.disk[p]],
                 restored_count |-> st.restored_count + 1], Tail(bl), nowrite)

\* The write loop of restore_files over the blocks in order, from the state
\* st = [disk, restored_count]: a write replaces the file at its path and is
\* counted; a write to a path in nowrite raises, is logged and changes nothing.
\* disk is a function from paths to contents.
RECURSIVE WriteAll(_, _, _)
WriteAll(st, bl, nowrite) ==
    IF bl = <<>> THEN st
    ELSE LET b == Head(bl) IN
         IF b.path \in nowrite THEN WriteAll(st, Tail(bl), nowrite)
         ELSE WriteAll(
                [disk |-> [p \in DOMAIN st.disk \cup {b.path} |->
                             IF p = b.path THEN b.content ELSE st.disk[p]],
                 restored_count |-> st.restored_count + 1], Tail(bl), nowrite)

\* The messages restore_files returns.
MSG_NONE == "(none)"
MSG_READ == "Could not read merge file"
MSG_MARKER == "Could not find 'File Contents' section in merge file"
MSG_EMPTY == "No files found to restore"
MSG_DONE == "Successfully restored"

\* restore_files with os.makedirs(output_directory) run before the merge file
\* is looked at.
restore_files_makedirs_first(t, dsk, readable, made, nowrite) ==
    LET content_start == FindMarker(t)
        failed == [success |-> FALSE, total_files |-> 0, restored_count |-> 0,
                   disk |-> dsk, md |-> FALSE, message |-> MSG_READ,
                   made |-> TRUE, from |-> {}]
    IN  IF ~readable THEN failed
        ELSE IF content_start = 0 THEN [failed EXCEPT !.message = MSG_MARKER]
        ELSE With(SubSeq(t, content_start, Len(t)), LAMBDA relevant_content :
               With(extract_file_blocks(relevant_content), LAMBDA file_blocks :
                 IF file_blocks = <<>>
                 THEN [failed EXCEPT !.md = LooksMarkdown(relevant_content),
                                     !.message = MSG_EMPTY]
                 ELSE With(WriteAll([disk |-> dsk, restored_count |-> 0],
                                    file_blocks, nowrite), LAMBDA st :
                      [failed EXCEPT
                         !.success = TRUE, !.total_files = Len(file_blocks),
                         !.restored_count = st.restored_count,
                         !.disk = st.disk,
                         !.md = LooksMarkdown(relevant_content),
                         !.message = MSG_DONE,
                         !.from = {file_blocks[i].start + content_start - 1 :
                                     i \in DOMAIN file_blocks}])))

\* FileRestorer.restore_files, uncancelled. readable: the merge file can be
\* opened and decoded; made: the destination directory has been created;
\* nowrite: the paths a write raises on. from, the header starts of the blocks
\* in the text t, is kept as history.
restore_files(t, dsk, readable, made, nowrite) ==
    LET content_start == FindMarker(t)
        failed == [success |-> FALSE, total_files |-> 0, restored_count |-> 0,
                   disk |-> dsk, md |-> FALSE, message |-> MSG_READ,
                   made |-> made, from |-> {}]
    IN  IF ~readable THEN failed
        ELSE IF content_start = 0 THEN [failed EXCEPT !.message = MSG_MARKER]
        ELSE With(SubSeq(t, content_start, Len(t)), LAMBDA relevant_content :
               With(extract_file_blocks(relevant_content), LAMBDA file_blocks :
                 IF file_blocks = <<>>
                 THEN [failed EXCEPT !.md = LooksMarkdown(relevant_content),
                                     !.message = MSG_EMPTY]
                 ELSE With(WriteAll([disk |-> dsk, restored_count |-> 0],
                                    file_blocks, nowrite), LAMBDA st :
                      [success |-> TRUE, total_files |-> Len(file_blocks),
                       restored_count |-> st.restored_count,
                       disk |-> st.disk,
                       md |-> LooksMarkdown(relevant_content),
                       message |-> MSG_DONE,
                       made |-> TRUE,
                       from |-> {file_blocks[i].start + content_start - 1 :
                                   i \in DOMAIN file_blocks}])))

\* --------------------------------------------------------------- actions
NoOutcome == [success |-> FALSE, total_files |-> 0, restored_count |-> 0, md |-> FALSE,
              message |-> MSG_NONE, from |-> {}]

\* The text variables where no text is modelled.
None == <<>>

\* The folders the window and the workers are modelled on: directory path ->
\* what os.walk lists in it, in the order the operating system gives.
DefaultFs ==
    (<<1>> :> [dirs |-> <<3>>, files |-> <<6>>])
    @@ (<<1, 3>> :> [dirs |-> <<>>, files |-> <<4>>])
    @@ (<<2>> :> [dirs |-> <<>>, files |-> <<5>>])

\* The default folders, no ignore pattern, hidden entries left out, and no call
\* of the ignore matcher on its own.
NoScanInputs ==
    /\ fs = DefaultFs
    /\ ignore_list = <<>>
    /\ include_hidden = FALSE
    /\ probe = <<>>
    /\ ignored = <<>>

\* No selection waits for a tree: the attribute is not set, or holds [].
NoSelection == [selected_files |-> {}, root_directory |-> <<>>, scan |-> 0]

\* The state FileMergerApp.__init__ leaves.
Constructed ==
    /\ root_directory = None
    /\ pending_selection = NoSelection
    /\ threads = <<>>
    /\ processor_thread = 0
    /\ tree_loader_thread = 0
    /\ restorer_thread = 0
    /\ queue = <<>>
    /\ objs = <<>>
    /\ tree_kids = (0 :> <<>>)
    /\ items_by_path = <<>>
    /\ pending_items = <<>>
    /\ merge_button = TRUE
    /\ browse_button = TRUE
    /\ progress_bar = FALSE
    /\ cancel_button = FALSE

\* The application variables where the application is not modelled: the state
\* FileMergerApp.__init__ leaves, on the default folders with nothing ignored.
NoApp ==
    /\ NoScanInputs
    /\ Constructed

\* No file fails, the size ceiling is the default, restore reads the merge
\* file just written into a destination that does not exist yet.
NoFaults ==
    /\ max_size_spin = DefaultMaxSizeSpin
    /\ unreadable = NoUnreadable
    /\ written = <<>>
    /\ merge_file = "merged"
    /\ unwritable = {}
    /\ dest_created = FALSE

NoText ==
    /\ content = <<>>
    /\ format = "txt"
    /\ artifact = <<>>
    /\ disk = <<>>
    /\ outcome = NoOutcome
    /\ NoFaults

Init ==
    /\ items \in TreeShapes
    /\ checkState = [n \in DOMAIN items |-> Checked]
    /\ updating = FALSE
    /\ lastOp = "build"
    /\ lastItem = 0
    /\ passes = NoPasses
    /\ pc = "select"
    /\ blocks = <<>>
    /\ visited = {}
    /\ manifest = <<>>
    /\ NoText
    /\ NoApp

\* The user clicks the check box of an item: Qt sets the new state and emits
\* itemChanged, which runs handle_item_changed.
ItemClicked(item) ==
    /\ pc = "select"
    /\ ~updating
    /\ checkState' = handle_item_changed(items,
                        [checkState EXCEPT ![item] = ClickedState(@)], item)
    /\ updating' = FALSE
    /\ lastOp' = "toggle"
    /\ lastItem' = item
    /\ UNCHANGED <<items, passes, pc, blocks, visited, manifest>>
    /\ UNCHANGED <<textVars, appVars>>

select_all_files ==
    /\ pc = "select"
    /\ checkState' = SetAll(items, checkState, Checked)
    /\ updating' = FALSE
    /\ lastOp' = "all"
    /\ lastItem' = 0
    /\ UNCHANGED <<items, passes, pc, blocks, visited, manifest>>
    /\ UNCHANGED <<textVars, appVars>>

select_no_files ==
    /\ pc = "select"
    /\ checkState' = SetAll(items, checkState, Unchecked)
    /\ updating' = FALSE
    /\ lastOp' = "none"
    /\ lastItem' = 0
    /\ UNCHANGED <<items, passes, pc, blocks, visited, manifest>>
    /\ UNCHANGED <<textVars, appVars>>

\* An uncancelled merge on a tree nobody changes while it runs.
Merge ==
    /\ pc = "select"
    /\ LET out == WriteFiles(items, checkState) IN
         /\ blocks' = out.blocks
         /\ visited' = out.visited
         /\ manifest' = write_tree_summary(items, checkState, 0, <<>>)
    /\ pc' = "merged"
    /\ UNCHANGED <<treeVars, textVars, appVars>>

FilesOf(its) == {n \in DOMAIN its : ~its[n].is_dir}

StrangerPath == 0

\* The lists restore_selected_files is called with: no file, one file, all
\* files but one, the list get_selected_files returns, and every item of the
\* tree with a path (StrangerPath) that names nothing of it.
SelectionLists(its, cs) ==
    {{}, Range(get_selected_files(its, cs)), ItemIds(its) \cup {StrangerPath}}
    \cup {{f} : f \in FilesOf(its)}
    \cup {FilesOf(its) \ {f} : f \in FilesOf(its)}

\* restore_selected_files called with a list of relative paths.
ApplySelection(selected_files) ==
    /\ pc = "select"
    /\ ~updating
    /\ checkState' = restore_selected_files(items, checkState, selected_files)
    /\ updating' = FALSE
    /\ lastOp' = "apply"
    /\ lastItem' = selected_files
    /\ UNCHANGED <<items, passes, pc, blocks, visited, manifest>>
    /\ UNCHANGED <<textVars, appVars>>

Next ==
    \/ \E item \in ItemIds(items) : ItemClicked(item)
    \/ select_all_files
    \/ select_no_files
    \/ Merge

Spec == Init /\ [][Next]_vars

\* SpecSelection: the selection of a tree of at most MaxTextNodes items is
\* edited and replaced by a persisted one.
InitSelection ==
    /\ Init
    /\ Len(items) <= MaxTextNodes

NextSelection ==
    \/ \E item \in ItemIds(items) : ItemClicked(item)
    \/ select_no_files
    \/ \E selected_files \in SelectionLists(items, checkState) :
         ApplySelection(selected_files)

SpecSelection == InitSelection /\ [][NextSelection]_vars

\* ------------------------------------------------ the itemChanged signal
\* SpecToggle: the same operations with the signal spelled out. The tree's
\* itemChanged signal is connected to handle_item_changed in the thread of the
\* window, so every setCheckState that changes a state calls the handler
\* before it returns. A window w is [cs, updating, passes]: the check states,
\* the guard flag, and how often the handler got past the guard, started its
\* walk down and started its walk up.
WindowOf(cs, flag) == [cs |-> cs, updating |-> flag, passes |-> NoPasses]

RECURSIVE emit_itemChanged(_, _, _)
RECURSIVE item_setCheckState(_, _, _, _)
RECURSIVE walk_check_all_children(_, _, _, _)
RECURSIVE walk_update_parent_state(_, _, _)

\* handle_item_changed without the test of self.updating.
handle_item_changed_unguarded(its, w, item) ==
    LET entered == [w EXCEPT !.updating = TRUE, !.passes.handler = @ + 1]
        check_state == entered.cs[item]
        down == IF check_state \in {Checked, Unchecked}
                THEN walk_check_all_children(its,
                         [entered EXCEPT !.passes.down = @ + 1], item, check_state)
                ELSE entered
        up == walk_update_parent_state(its, [down EXCEPT !.passes.up = @ + 1],
                                       its[item].parent)
    IN  [up EXCEPT !.updating = FALSE]

\* FileMergerApp.handle_item_changed(item, 0) as the slot of itemChanged.
on_item_changed(its, w, item) ==
    IF w.updating THEN w
    ELSE LET entered == [w EXCEPT !.updating = TRUE, !.passes.handler = @ + 1]
             check_state == entered.cs[item]
             down == IF check_state \in {Checked, Unchecked}
                     THEN walk_check_all_children(its,
                              [entered EXCEPT !.passes.down = @ + 1], item,
                              check_state)
                     ELSE entered
             up == walk_update_parent_state(its,
                       [down EXCEPT !.passes.up = @ + 1], its[item].parent)
         IN  [up EXCEPT !.updating = FALSE]

emit_itemChanged(its, w, item) == on_item_changed(its, w, item)

\* QTreeWidgetItem.setCheckState on an item of the tree: itemChanged is
\* emitted when the state changes.
item_setCheckState(its, w, item, check_state) ==
    IF w.cs[item] = check_state THEN w
    ELSE emit_itemChanged(its, [w EXCEPT !.cs[item] = check_state], item)

\* check_all_children, every state set through setCheckState.
walk_check_all_children(its, w, item, check_state) ==
    LET kids == Children(its, item)
        RECURSIVE loop(_, _)
        loop(x, i) ==
            IF i > Len(kids) THEN x
            ELSE loop(walk_check_all_children(its,
                          item_setCheckState(its, x, kids[i], check_state),
                          kids[i], check_state), i + 1)
    IN  loop(w, 1)

\* update_parent_state, every state set through setCheckState.
walk_update_parent_state(its, w, parent) ==
    IF parent = 0 THEN w
    ELSE walk_update_parent_state(its,
             item_setCheckState(its, w, parent, ParentStateFor(its, w.cs, parent)),
             its[parent].parent)

\* select_all_files / select_no_files with the signal: the guard is set, then
\* every top-level item is set and walked, then the guard is cleared.
walk_select(its, w, check_state) ==
    LET tops == Children(its, 0)
        RECURSIVE loop(_, _)
        loop(x, i) ==
            IF i > Len(tops) THEN x
            ELSE loop(walk_check_all_children(its,
                          item_setCheckState(its, x, tops[i], check_state),
                          tops[i], check_state), i + 1)
    IN  [loop([w EXCEPT !.updating = TRUE], 1) EXCEPT !.updating = FALSE]

Processed(w, op, item) ==
    /\ checkState' = w.cs
    /\ updating' = w.updating
    /\ passes' = w.passes
    /\ lastOp' = op
    /\ lastItem' = item
    /\ UNCHANGED <<items, pc, blocks, visited, manifest>>
    /\ UNCHANGED <<textVars, appVars>>

\* A click on the check box of an item: the view sets the new state.
ToggleItem(item) ==
    /\ pc = "select"
    /\ Processed(item_setCheckState(items, WindowOf(checkState, updating), item,
                                ClickedState(checkState[item])), "toggle", item)

SelectAllClicked ==
    /\ pc = "select"
    /\ Processed(walk_select(items, WindowOf(checkState, updating), Checked), "all", 0)

SelectNoneClicked ==
    /\ pc = "select"
    /\ Processed(walk_select(items, WindowOf(checkState, updating), Unchecked),
             "none", 0)

NextToggle ==
    \/ \E item \in ItemIds(items) : ToggleItem(item)
    \/ SelectAllClicked
    \/ SelectNoneClicked

SpecToggle == Init /\ [][NextToggle]_vars

\* ------------------------------------------- serialize, then restore the text

Alphabet == {"a", SP, NL}
SmallTexts == UNION {[1..k -> Alphabet] : k \in 0..MaxLen}
DefaultText == <<"a">>

\* Texts a source tree holds besides the small ones: a markdown document with
\* a code block, a line that starts like a markdown file heading, a text that
\* ends with a separator line or a tab, and an earlier merge file of the same
\* tree (one block of it, in either format).
Specimens(its) ==
    {<<"a", NL, FENCE, NL, "b", NL, FENCE, NL, "a">>,
     <<"a", NL, MD_HEADING, "b">>,
     <<"a", NL, SEP>>,
     <<"a", TAB>>}
    \cup {<<"b">> \o write_file_header("txt", n, <<>>) \o <<"b">> : n \in FilesOf(its)}
    \cup {<<"b">> \o write_single_file("md", n, <<"b">>, TRUE, MiB) : n \in FilesOf(its)}

Texts(its) == SmallTexts \cup Specimens(its)

\* The files of X unchecked one after the other on the freshly built tree.
RECURSIVE UncheckFiles(_, _, _)
UncheckFiles(its, cs, X) ==
    IF X = {} THEN cs
    ELSE LET f == CHOOSE x \in X : \A y \in X : x <= y IN
         UncheckFiles(its, handle_item_changed(its, [cs EXCEPT ![f] = Unchecked], f),
                      X \ {f})

InitText ==
    /\ items \in {its \in TreeShapes : Len(its) <= MaxTextNodes}
    /\ \E X \in SUBSET FilesOf(items) :
         checkState = UncheckFiles(items, [n \in DOMAIN items |-> Checked], X)
    /\ updating = FALSE
    /\ lastOp = "build"
    /\ lastItem = 0
    /\ passes = NoPasses
    /\ pc = "select"
    /\ blocks = <<>>
    /\ visited = {}
    /\ manifest = <<>>
    /\ content \in
         {[f \in FilesOf(items) |-> DefaultText]}
         \cup {[f \in FilesOf(items) |-> IF f = s THEN t ELSE DefaultText] :
                 s \in FilesOf(items), t \in Texts(items)}
    /\ format \in {"txt", "md"}
    /\ artifact = <<>>
    /\ disk = <<>>
    /\ outcome = NoOutcome
    /\ NoFaults
    /\ NoApp

\* FileProcessor.process_files, uncancelled, on files that exist.
MergeToArtifact ==
    /\ pc = "select"
    /\ \E out \in {WriteFiles(items, checkState)} :
         /\ blocks' = out.blocks
         /\ visited' = out.visited
         /\ manifest' = write_tree_summary(items, checkState, 0, <<>>)
         /\ written' = [f \in Range(out.blocks) |->
                          single_file(content[f], f \notin unreadable,
                                      max_size_spin * MiB)]
    /\ artifact' = process_files(format, items, checkState, content, unreadable,
                                 max_size_spin * MiB)
    /\ pc' = "merged"
    /\ UNCHANGED <<treeVars, content, format, disk, outcome, appVars>>
    /\ UNCHANGED <<max_size_spin, unreadable, merge_file, unwritable, dest_created>>

\* A text file of the output folder that is no merge file.
OtherFile == <<"a", NL, "b">>

\* The text of the file chosen in the restore dialog.
MergeFileText == IF merge_file = "merged" THEN artifact ELSE OtherFile

\* FileRestorer.restore_files of the chosen file into the destination.
RunRestore ==
    \E r \in {restore_files(MergeFileText, disk, merge_file # "unreadable",
                             dest_created, unwritable)} :
       /\ disk' = r.disk
       /\ dest_created' = r.made
       /\ outcome' = [success |-> r.success, total_files |-> r.total_files,
                      restored_count |-> r.restored_count, md |-> r.md,
                      message |-> r.message, from |-> r.from]

\* The first restore of the merge file, into a destination that does not exist.
Restore ==
    /\ pc = "merged"
    /\ RunRestore
    /\ pc' = "restored"
    /\ UNCHANGED <<treeVars, blocks, visited, manifest, content, format, artifact, appVars>>
    /\ UNCHANGED <<max_size_spin, unreadable, written, merge_file, unwritable>>

NextText == MergeToArtifact \/ Restore

SpecText == InitText /\ [][NextText]_vars

\* ------------------- serialize and restore with files and writes that fail
\* Largest number of items in a tree with large, binary or unreadable files.
MaxFileNodes == 2
\* Largest size ceiling, in MB, set in the spin box.
MaxSpin == 2

\* Texts around the thresholds of _is_binary_content.
BinaryTexts ==
    {<<NUL>>, <<"a", NUL>>, <<CTL>>,
     <<CTL, "a", "a">>,                 \* 1 of 3
     <<CTL, "a", "a", "a">>,            \* 1 of 4
     <<CTL300, A699, "a">>,             \* 300 of 1000
     <<CTL300, CTL, A699>>,             \* 301 of 1000
     <<A699, "a", CTL300, CTL>>,        \* 300 of the first 1000, 301 of 1001
     <<A699, "a", CTL300, NUL>>}        \* a NUL after the first 1000

\* Texts around the size ceiling.
LargeTexts ==
    {<<MB>>, <<MB, "a">>, <<MB, MB>>, <<MB, MB, "a">>, <<MB, "a", NUL>>}

FileTexts(its) ==
    {<<>>, <<"a">>, <<"a", NL>>} \cup Specimens(its) \cup BinaryTexts \cup LargeTexts

\* What can go wrong in one run: nothing, open() raising on one file of the
\* tree, a write raising on one path of the destination, a file chosen for
\* restore that is no merge file or cannot be read.
InitFaults ==
    \/ /\ unreadable = {} /\ unwritable = {} /\ merge_file = "merged"
       /\ max_size_spin \in 1..MaxSpin
    \/ /\ unreadable \in {{f} : f \in FilesOf(items)}
       /\ unwritable = {} /\ merge_file = "merged"
       /\ max_size_spin \in 1..MaxSpin
    \/ /\ unreadable = {}
       /\ unwritable \in {{RelPath(f)} : f \in FilesOf(items)}
       /\ merge_file = "merged"
       /\ max_size_spin = 1
    \/ /\ unreadable = {} /\ unwritable = {}
       /\ merge_file \in {"other", "unreadable"}
       /\ max_size_spin = 1

InitFiles ==
    /\ items \in {its \in TreeShapes : Len(its) <= MaxFileNodes}
    /\ \E X \in {{}} \cup {{f} : f \in FilesOf(items)} :
         checkState = UncheckFiles(items, [n \in DOMAIN items |-> Checked], X)
    /\ updating = FALSE
    /\ lastOp = "build"
    /\ lastItem = 0
    /\ passes = NoPasses
    /\ pc = "select"
    /\ blocks = <<>>
    /\ visited = {}
    /\ manifest = <<>>
    /\ content \in
         {[f \in FilesOf(items) |-> DefaultText]}
         \cup {[f \in FilesOf(items) |-> IF f = s THEN t ELSE DefaultText] :
                 s \in FilesOf(items), t \in FileTexts(items)}
    /\ format \in {"txt", "md"}
    /\ artifact = <<>>
    /\ disk = <<>>
    /\ outcome = NoOutcome
    /\ written = <<>>
    /\ dest_created = FALSE
    /\ InitFaults
    /\ NoApp

\* The same file restored a second time into the same destination.
RestoreAgain ==
    /\ pc = "restored"
    /\ RunRestore
    /\ pc' = "again"
    /\ UNCHANGED <<treeVars, blocks, visited, manifest, content, format, artifact, appVars>>
    /\ UNCHANGED <<max_size_spin, unreadable, written, merge_file, unwritable>>

NextFiles == MergeToArtifact \/ Restore \/ RestoreAgain

SpecFiles == InitFiles /\ [][NextFiles]_vars

\* --------------------------------------------- the application and its workers
\* Largest number of worker threads created in one run.
MaxThreads == 3
\* Largest number of file blocks in a merge file handed to restore.
MaxRestoreFiles == 1
\* TreeLoaderThread.load_tree_data: chunk_size
chunk_size == 100

\* The folders the user can pick. A path is the sequence of the names on it; a
\* name is a number, smaller for the name that sorts first in lower case.
RootDirs == {<<1>>, <<2>>}

\* What os.walk lists in a directory: its subdirectories, its files.
ListDirs(dirpath) == IF dirpath \in DOMAIN fs THEN fs[dirpath].dirs ELSE <<>>
ListFiles(dirpath) == IF dirpath \in DOMAIN fs THEN fs[dirpath].files ELSE <<>>

\* ------------------------------------------------------------------- names
Letters == <<"a", "b", "c", "d", "e", "f", "g", "h", "i", "j", "k", "l", "m",
             "n", "o", "p", "q", "r", "s", "t", "u", "v", "w", "x", "y", "z">>

\* A path is the sequence of the names on it and a name is a number; Chars
\* spells it, one string per character. The numbers above 100 are the files
\* of a folder that fills a chunk: faa, fab, ...
Chars(name) ==
    CASE name = 1 -> <<".", "a">>
      [] name = 2 -> <<"a">>
      [] name = 3 -> <<"a", ".", "c">>
      [] name = 4 -> <<"b">>
      [] name = 5 -> <<"b", "a">>
      [] name = 6 -> <<"c">>
      [] name = 7 -> <<"B">>
      [] name = 8 -> <<"a", "p", "p", ".", "p", "y", "c">>
      [] name = 9 -> <<"n", "o", "d", "e", "_", "m", "o", "d", "u", "l", "e", "s">>
      [] name = 10 -> <<"b", "u", "i", "l", "d", "_", "o", "u", "t", "p", "u", "t">>
      [] name = 11 -> <<".", "e", "n", "v">>
      [] name = 12 -> <<"m", "a", "i", "n", ".", "g", "o">>
      [] OTHER -> <<"f", Letters[1 + ((name % 100) \div 26)],
                    Letters[1 + ((name % 100) % 26)]>>

Names == 1..12

\* ord(c) for the characters of the names.
Ord(c) ==
    CASE c = "." -> 46
      [] c = "B" -> 66
      [] c = "_" -> 95
      [] OTHER -> 96 + CHOOSE k \in DOMAIN Letters : Letters[k] = c

\* str.lower; B is the one upper-case character of the names.
lower(chars) == [k \in DOMAIN chars |-> IF chars[k] = "B" THEN "b" ELSE chars[k]]

\* x < y on strings: by the first character that differs, a proper prefix
\* first.
StrLess(x, y) ==
    \E k \in 1..(Len(x) + 1) :
        /\ k <= Len(y)
        /\ SubSeq(x, 1, k - 1) = SubSeq(y, 1, k - 1)
        /\ k = Len(x) + 1 \/ Ord(x[k]) < Ord(y[k])

\* The order of key=str.lower on names.
LowerLess(a, b) == StrLess(lower(Chars(a)), lower(Chars(b)))

\* str.startswith, str.endswith
startswith(text, prefix) ==
    Len(prefix) <= Len(text) /\ SubSeq(text, 1, Len(prefix)) = prefix
endswith(text, suffix) ==
    /\ Len(suffix) <= Len(text)
    /\ SubSeq(text, Len(text) - Len(suffix) + 1, Len(text)) = suffix

\* fnmatch.fnmatch on a pattern of literal characters, * and ?, on a platform
\* whose normcase keeps the case: * stands for any run of characters, ? for
\* one.
RECURSIVE fnmatch(_, _)
fnmatch(name, pat) ==
    IF pat = <<>> THEN name = <<>>
    ELSE IF Head(pat) = "*"
    THEN \E k \in 0..Len(name) : fnmatch(SubSeq(name, k + 1, Len(name)), Tail(pat))
    ELSE /\ name # <<>>
         /\ Head(pat) = "?" \/ Head(pat) = Head(name)
         /\ fnmatch(Tail(name), Tail(pat))

\* os.path.basename
basename(path) == Chars(path[Len(path)])

\* The pattern loop of should_ignore_path read as three exclusive kinds of
\* pattern: a leading * makes a suffix rule and nothing else, a trailing * a
\* prefix rule and nothing else, any other * a glob.
RECURSIVE PatternLoopByKind(_, _, _)
PatternLoopByKind(item, list, k) ==
    IF k > Len(list) THEN FALSE
    ELSE LET pattern == list[k] IN
         IF startswith(pattern, <<"*">>)
         THEN endswith(item, Tail(pattern)) \/ PatternLoopByKind(item, list, k + 1)
         ELSE IF endswith(pattern, <<"*">>)
         THEN \/ startswith(item, SubSeq(pattern, 1, Len(pattern) - 1))
              \/ PatternLoopByKind(item, list, k + 1)
         ELSE IF "*" \in Range(pattern) /\ fnmatch(item, pattern) THEN TRUE
         ELSE PatternLoopByKind(item, list, k + 1)

\* The pattern loop of should_ignore_path from pattern k on.
RECURSIVE PatternLoop(_, _, _)
PatternLoop(item, list, k) ==
    IF k > Len(list) THEN FALSE
    ELSE LET pattern == list[k] IN
         IF startswith(pattern, <<"*">>) /\ endswith(item, Tail(pattern)) THEN TRUE
         ELSE IF /\ endswith(pattern, <<"*">>)
                 /\ startswith(item, SubSeq(pattern, 1, Len(pattern) - 1))
         THEN TRUE
         ELSE IF "*" \in Range(pattern) /\ fnmatch(item, pattern) THEN TRUE
         ELSE PatternLoop(item, list, k + 1)

\* TreeLoaderThread.should_ignore_path
should_ignore_path(path, list, hidden) ==
    LET item == basename(path) IN
    IF ~hidden /\ startswith(item, <<".">>) THEN TRUE
    ELSE IF item \in Range(list) THEN TRUE
    ELSE PatternLoop(item, list, 1)

\* list.sort and sorted: the elements of xs in the order Less, equal elements
\* in the order they have in xs.
Sorted(seq, Less(_, _)) ==
    With(seq, LAMBDA xs :
      LET Before(j, i) == Less(xs[j], xs[i]) \/ (~Less(xs[i], xs[j]) /\ j < i)
          Rank(i) == Cardinality({j \in DOMAIN xs : Before(j, i)}) + 1
      IN  With([i \in DOMAIN xs |-> Rank(i)], LAMBDA rank :
            [r \in DOMAIN xs |-> xs[CHOOSE i \in DOMAIN xs : rank[i] = r]]))

\* TreeLoaderThread._create_item_data; size and modified are display only.
create_item_data(name, full_path, parent_path, is_dir) ==
    [name |-> name, full_path |-> full_path, is_dir |-> is_dir,
     parent_path |-> parent_path]

\* [x for x in xs if Keep(x)]
RECURSIVE KeptIn(_, _)
KeptIn(xs, keep) ==
    IF xs = <<>> THEN <<>>
    ELSE IF Head(xs) \in keep THEN <<Head(xs)>> \o KeptIn(Tail(xs), keep)
    ELSE KeptIn(Tail(xs), keep)

\* dirs after the in-place filter of load_tree_data, with every directory kept.
WalkDirsUnfiltered(root, list, hidden) == ListDirs(root)

\* dirs after the in-place filter of load_tree_data: dirs[:] = [d for d in dirs
\* if not should_ignore_path(join(root, d))].
WalkDirs(root, list, hidden) ==
    KeptIn(ListDirs(root),
           {d \in Range(ListDirs(root)) :
              ~should_ignore_path(root \o <<d>>, list, hidden)})

\* The files of root that load_tree_data does not skip.
WalkFiles(root, list, hidden) ==
    KeptIn(ListFiles(root),
           {f \in Range(ListFiles(root)) :
              ~should_ignore_path(root \o <<f>>, list, hidden)})

\* One iteration of the os.walk loop of load_tree_data on directory root: the
\* entries of the kept directories, sorted, then of the kept files, sorted.
\* Skipping an ignored file inside the loop over the sorted files gives what
\* sorting the kept files gives.
WalkEntries(root, list, hidden) ==
    LET dirs == Sorted(WalkDirs(root, list, hidden), LowerLess)
        files == Sorted(WalkFiles(root, list, hidden), LowerLess)
    IN  [k \in 1..Len(dirs) |->
            create_item_data(dirs[k], root \o <<dirs[k]>>, root, TRUE)]
        \o [k \in 1..Len(files) |->
              create_item_data(files[k], root \o <<files[k]>>, root, FALSE)]

\* The directories os.walk descends into after root, top down: the ones the
\* filter left in dirs, in the order of dirs.
WalkInto(root, list, hidden) ==
    LET dirs == WalkDirs(root, list, hidden)
    IN  [k \in 1..Len(dirs) |-> root \o <<dirs[k]>>]

\* A thread object, as its constructor leaves it.
NewThread(kind, root, left) ==
    [kind |-> kind, root_directory |-> root, running |-> TRUE,
     should_cancel |-> FALSE, phase |-> "run",
     todo |-> IF kind = "scan" THEN <<root>> ELSE <<>>, tree_data |-> <<>>,
     left |-> left, manifest |-> <<>>, blocks |-> <<>>, listed |-> <<>>,
     polled |-> FALSE, touched |-> FALSE, snapshot |-> {}]

\* thread and thread.isRunning()
isRunning(thread) == thread # 0 /\ threads[thread].running

ThreadIds == DOMAIN threads

\* --------------------------------------------------------------- tree widget
\* The items of the tree: those reachable from the invisible root.
RECURSIVE Below(_, _)
Below(kids, n) ==
    LET cs == {kids[n][k] : k \in 1..Len(kids[n])}
    IN  cs \cup UNION {Below(kids, c) : c \in cs}

Shown == Below(tree_kids, 0)

\* The widget state the chunk handlers work on.
Widget == [objs |-> objs, kids |-> tree_kids, by_path |-> items_by_path,
           pending |-> pending_items, failed |-> FALSE]

Put(f, k, v) == [x \in DOMAIN f \cup {k} |-> IF x = k THEN v ELSE f[x]]

\* The items of the tree in the order a walk from the root meets them.
RECURSIVE Preorder(_, _)
Preorder(kids, n) ==
    LET RECURSIVE loop(_)
        loop(k) ==
            IF k > Len(kids[n]) THEN <<>>
            ELSE <<kids[n][k]>> \o Preorder(kids, kids[n][k]) \o loop(k + 1)
    IN  loop(1)

PosOf(order, id) == CHOOSE p \in DOMAIN order : order[p] = id

\* item.parent() in the widget, 0 for a top-level item.
ParentOf(kids, id) ==
    IF \E p \in DOMAIN kids \ {0} : id \in Range(kids[p])
    THEN CHOOSE p \in DOMAIN kids \ {0} : id \in Range(kids[p])
    ELSE 0

\* The tree of the widget as the selection operators take it: the items in
\* walk order, each with the position of its parent, and their check states.
ViewOf(w) ==
    With(Preorder(w.kids, 0), LAMBDA order :
      [order |-> order,
       its |-> [n \in DOMAIN order |->
                  [parent |-> IF ParentOf(w.kids, order[n]) = 0 THEN 0
                              ELSE PosOf(order, ParentOf(w.kids, order[n])),
                   is_dir |-> w.objs[order[n]].is_dir]],
       cs |-> [n \in DOMAIN order |-> w.objs[order[n]].check]])

\* The check states cs of the view written back to the items of the widget.
WithStates(w, view, cs) ==
    [k \in DOMAIN w.objs |->
       IF k \in Range(view.order)
       THEN [w.objs[k] EXCEPT !.check = cs[PosOf(view.order, k)]]
       ELSE w.objs[k]]

\* parent_item.addChild(tree_item), tree.addTopLevelItem(tree_item) for parent 0
addChild(w, parent, item) == [w EXCEPT !.kids[parent] = Append(@, item)]

\* The body of the loop of update_tree_data for one entry. Calling addChild on
\* an item that tree.clear() deleted raises; w.failed records that.
AddItem(w, item_data, root) ==
    LET tree_item == Len(w.objs) + 1
        made == [w EXCEPT
                   !.objs = Append(@, [full_path |-> item_data.full_path,
                                       is_dir |-> item_data.is_dir,
                                       deleted |-> FALSE,
                                       check |-> Checked]),
                   !.kids = Put(@, tree_item, <<>>)]
        parent_path == item_data.parent_path
        stored(x) == [x EXCEPT !.by_path = Put(@, item_data.full_path, tree_item)]
    IN  IF parent_path = root THEN stored(addChild(made, 0, tree_item))
        ELSE IF parent_path \in DOMAIN w.by_path
        THEN IF w.objs[w.by_path[parent_path]].deleted
             THEN [made EXCEPT !.failed = TRUE]
             ELSE stored(addChild(made, w.by_path[parent_path], tree_item))
        ELSE stored([made EXCEPT
                       !.pending = Append(@, [item |-> tree_item,
                                              parent_path |-> parent_path])])

\* The loop of update_tree_data over the entries of the chunk, first to last:
\* over the first half of them, then over the rest.
RECURSIVE AddItems(_, _, _)
AddItems(w, chunk, root) ==
    IF chunk = <<>> \/ w.failed THEN w
    ELSE IF Len(chunk) = 1 THEN AddItem(w, chunk[1], root)
    ELSE With(AddItems(w, SubSeq(chunk, 1, Len(chunk) \div 2), root), LAMBDA half :
           AddItems(half, SubSeq(chunk, Len(chunk) \div 2 + 1, Len(chunk)), root))

\* The loop of process_pending_items over pending[k..]; remaining collects the
\* items whose parent is still unknown.
RECURSIVE PendingLoop(_, _, _)
PendingLoop(w, k, remaining) ==
    IF k > Len(w.pending) THEN [w EXCEPT !.pending = remaining]
    ELSE LET p == w.pending[k] IN
         IF p.parent_path \in DOMAIN w.by_path
         THEN IF w.objs[w.by_path[p.parent_path]].deleted
              THEN [w EXCEPT !.failed = TRUE]
              ELSE With(addChild(w, w.by_path[p.parent_path], p.item), LAMBDA next :
                     PendingLoop(next, k + 1, remaining))
         ELSE PendingLoop(w, k + 1, Append(remaining, p))

\* process_pending_items that attaches nothing.
keep_pending_items(w) == w

\* FileMergerApp.process_pending_items
process_pending_items(w) == PendingLoop(w, 1, <<>>)

\* The sort key of update_tree_data: (not is_dir, name.lower()).
ChunkLess(a, b) ==
    \/ a.is_dir /\ ~b.is_dir
    \/ a.is_dir = b.is_dir /\ LowerLess(a.name, b.name)

\* FileMergerApp.update_tree_data as a function of the widget state; an
\* exception ends the handler where it is raised.
update_tree_data(w, tree_data_chunk, root, cancelled) ==
    With(IF cancelled THEN w
         ELSE AddItems(w, Sorted(tree_data_chunk, ChunkLess), root),
         LAMBDA added : IF added.failed THEN added ELSE process_pending_items(added))

\* os.path.relpath(full_path, root_dir) is among the saved paths. The relative
\* path of a path outside root_dir starts with a parent entry; no saved path
\* here does.
Saved(full_path, root_dir, selected_files) ==
    /\ Len(full_path) > Len(root_dir)
    /\ SubSeq(full_path, 1, Len(root_dir)) = root_dir
    /\ SubSeq(full_path, Len(root_dir) + 1, Len(full_path)) \in selected_files

\* FileMergerApp.restore_selected_files on the tree of the widget: the files
\* whose path relative to root_dir is saved are checked, the others unchecked.
restore_selected_shown(w, selected_files, root_dir) ==
    With(ViewOf(w), LAMBDA view :
      [w EXCEPT !.objs =
         WithStates(w, view,
           restore_selected_files(view.its, view.cs,
             {n \in DOMAIN view.order :
                Saved(w.objs[view.order[n]].full_path, root_dir,
                      selected_files)}))])

\* FileMergerApp.finalize_tree_building; selected_files is _pending_selection,
\* empty when the attribute is not set.
finalize_tree_building(w, selected_files, root_dir) ==
    With(process_pending_items(w), LAMBDA done :
      IF done.failed THEN done
      ELSE With(IF selected_files # {}
                THEN restore_selected_shown(done, selected_files, root_dir)
                ELSE done,
                LAMBDA restored :
                  [restored EXCEPT !.by_path = <<>>, !.pending = <<>>]))

\* tree.clear(): the items of the tree are deleted. Objects nothing refers to
\* any more are dropped from objs.
clear(w) ==
    IF DOMAIN w.by_path = {} /\ w.pending = <<>>
    THEN [w EXCEPT !.objs = <<>>, !.kids = (0 :> <<>>)]
    ELSE [w EXCEPT
            !.objs = [k \in DOMAIN w.objs |->
                        IF k \in Below(w.kids, 0)
                        THEN [w.objs[k] EXCEPT !.deleted = TRUE] ELSE w.objs[k]],
            !.kids[0] = <<>>]

SetWidget(w) ==
    /\ objs' = w.objs
    /\ tree_kids' = w.kids
    /\ items_by_path' = w.by_path
    /\ pending_items' = w.pending

\* ------------------------------------------------------ application actions
Signal(sig, from, arg) == [sig |-> sig, from |-> from, arg |-> arg]

UnchangedOutsideApp == UNCHANGED <<treeVars, mergeVars, textVars, scanVars>>

InitApp ==
    /\ items = <<>>
    /\ checkState = <<>>
    /\ updating = FALSE
    /\ lastOp = "build"
    /\ lastItem = 0
    /\ passes = NoPasses
    /\ pc = "app"
    /\ blocks = <<>>
    /\ visited = {}
    /\ manifest = <<>>
    /\ NoText
    /\ NoApp

\* FileMergerApp.start_tree_loading with root_directory already set to root.
\* wait(1000) returns whether or not the cancelled loader has ended: the loader
\* goes on as its own thread.
start_tree_loading(root) ==
    /\ Len(threads) < MaxThreads
    /\ threads' = Append(IF isRunning(tree_loader_thread)
                         THEN [threads EXCEPT ![tree_loader_thread].should_cancel = TRUE]
                         ELSE threads,
                         NewThread("scan", root, 0))
    /\ tree_loader_thread' = Len(threads) + 1
    /\ SetWidget(clear([Widget EXCEPT !.by_path = <<>>, !.pending = <<>>]))
    /\ progress_bar' = TRUE
    /\ cancel_button' = TRUE
    /\ browse_button' = FALSE
    /\ root_directory' = root
    /\ UNCHANGED <<processor_thread, restorer_thread, queue, merge_button>>
    /\ UnchangedOutsideApp

\* FileMergerApp.browse_folder, from the button or the toolbar, with a folder
\* selected in the dialog.
browse_folder(folder_selected) ==
    /\ start_tree_loading(folder_selected)
    /\ UNCHANGED pending_selection

\* FileMergerApp.refresh_tree
refresh_tree ==
    /\ root_directory # None
    /\ start_tree_loading(root_directory)
    /\ UNCHANGED pending_selection

\* FileMergerApp.new_project
new_project ==
    /\ root_directory' = None
    /\ SetWidget(clear(Widget))
    /\ UNCHANGED <<pending_selection, threadVars, buttonVars>>
    /\ UnchangedOutsideApp

\* FileMergerApp.merge_files, from the button, the toolbar or the menu.
merge_files ==
    /\ root_directory # None
    /\ Len(threads) < MaxThreads
    /\ progress_bar' = TRUE
    /\ cancel_button' = TRUE
    /\ merge_button' = FALSE
    /\ threads' = Append(threads, NewThread("merge", root_directory, 0))
    /\ processor_thread' = Len(threads) + 1
    /\ UNCHANGED <<root_directory, pending_selection, tree_loader_thread, restorer_thread, queue,
                   widgetVars, browse_button>>
    /\ UnchangedOutsideApp

\* FileMergerApp.start_file_restoration for a merge file with left blocks.
start_file_restoration(left) ==
    /\ Len(threads) < MaxThreads
    /\ progress_bar' = TRUE
    /\ cancel_button' = TRUE
    /\ threads' = Append(threads, NewThread("restore", None, left))
    /\ restorer_thread' = Len(threads) + 1
    /\ UNCHANGED <<root_directory, pending_selection, processor_thread,
                   tree_loader_thread, queue,
                   widgetVars, merge_button, browse_button>>
    /\ UnchangedOutsideApp

\* FileMergerApp.cancel_processing, from the cancel button while it shows.
cancel_processing ==
    /\ cancel_button
    /\ LET thread == IF isRunning(processor_thread) THEN processor_thread
                     ELSE IF isRunning(tree_loader_thread) THEN tree_loader_thread
                     ELSE IF isRunning(restorer_thread) THEN restorer_thread
                     ELSE 0
       IN  threads' = IF thread = 0 THEN threads
                      ELSE [threads EXCEPT ![thread].should_cancel = TRUE]
    /\ UNCHANGED <<root_directory, pending_selection, processor_thread,
                   tree_loader_thread,
                   restorer_thread, queue, widgetVars, buttonVars>>
    /\ UnchangedOutsideApp

UnchangedByWorker ==
    /\ UNCHANGED <<root_directory, pending_selection, processor_thread,
                   tree_loader_thread,
                   restorer_thread, widgetVars, buttonVars>>
    /\ UnchangedOutsideApp

Working(t, kind, phase) ==
    /\ threads[t].kind = kind
    /\ threads[t].running
    /\ threads[t].phase = phase

\* TreeLoaderThread.load_tree_data: one iteration of the os.walk loop, or its
\* end. The settings do not change while a scan runs here, so the copies the
\* thread took at its construction are ignore_list and include_hidden.
ScanWalk(t) ==
    /\ Working(t, "scan", "run")
    /\ LET self == threads[t] IN
       IF self.todo = <<>> \/ self.should_cancel
       THEN /\ threads' = [threads EXCEPT ![t].phase = "rest"]
            /\ queue' = queue
       ELSE LET root == Head(self.todo)
                tree_data == self.tree_data
                             \o WalkEntries(root, ignore_list, include_hidden)
                emit == Len(tree_data) >= chunk_size
            IN  /\ threads' = [threads EXCEPT
                                 ![t].todo = WalkInto(root, ignore_list, include_hidden)
                                             \o Tail(self.todo),
                                 ![t].tree_data = IF emit THEN <<>> ELSE tree_data]
                /\ queue' = IF emit
                            THEN Append(queue, Signal("tree_data_chunk", t, tree_data))
                            ELSE queue
    /\ UnchangedByWorker

\* TreeLoaderThread.load_tree_data: emit any remaining data.
ScanRest(t) ==
    /\ Working(t, "scan", "rest")
    /\ LET self == threads[t] IN
       queue' = IF self.tree_data # <<>> /\ ~self.should_cancel
                THEN Append(queue, Signal("tree_data_chunk", t, self.tree_data))
                ELSE queue
    /\ threads' = [threads EXCEPT ![t].phase = "done"]
    /\ UnchangedByWorker

\* TreeLoaderThread.load_tree_data: the completion signals, then run returns.
ScanDone(t) ==
    /\ Working(t, "scan", "done")
    /\ queue' = IF ~threads[t].should_cancel
                THEN queue \o <<Signal("tree_loaded", t, <<>>),
                                Signal("loading_finished", t, TRUE)>>
                ELSE queue
    /\ threads' = [threads EXCEPT ![t].running = FALSE, ![t].phase = "end"]
    /\ UnchangedByWorker

\* FileProcessor.process_files to its end without an exception.
MergeRun(t) ==
    /\ Working(t, "merge", "run")
    /\ queue' = IF ~threads[t].should_cancel
                THEN Append(queue, Signal("finished_processing", t, TRUE))
                ELSE queue
    /\ threads' = [threads EXCEPT ![t].running = FALSE, ![t].phase = "end"]
    /\ UnchangedByWorker

\* FileProcessor.process_files ended by an exception of the file system.
MergeFail(t) ==
    /\ Working(t, "merge", "run")
    /\ queue' = Append(queue, Signal("finished_processing", t, FALSE))
    /\ threads' = [threads EXCEPT ![t].running = FALSE, ![t].phase = "end"]
    /\ UnchangedByWorker

\* FileRestorer.restore_files: one iteration of the loop over the blocks.
RestoreWrite(t) ==
    /\ threads[t].kind = "restore"
    /\ threads[t].running
    /\ threads[t].left > 0
    /\ ~threads[t].should_cancel
    /\ threads' = [threads EXCEPT ![t].left = @ - 1, ![t].phase = "wrote"]
    /\ queue' = queue
    /\ UnchangedByWorker

\* FileRestorer.run: restore_files returns and the result is emitted. It is
\* False for a file without blocks and for a cancelled loop.
RestoreReturn(t) ==
    /\ threads[t].kind = "restore"
    /\ threads[t].running
    /\ threads[t].left = 0 \/ threads[t].should_cancel
    /\ queue' = Append(queue, Signal("finished_restoring", t,
                                     threads[t].left = 0 /\ threads[t].phase = "wrote"))
    /\ threads' = [threads EXCEPT ![t].running = FALSE, ![t].phase = "end"]
    /\ UnchangedByWorker

\* The main thread takes the next queued signal and runs the connected slot.
Delivered(sig) ==
    /\ queue # <<>>
    /\ Head(queue).sig = sig
    /\ queue' = Tail(queue)

\* slot FileMergerApp.update_tree_data
on_tree_data_chunk ==
    /\ Delivered("tree_data_chunk")
    /\ SetWidget(update_tree_data(Widget, Head(queue).arg, root_directory,
                                  threads[tree_loader_thread].should_cancel))
    /\ UNCHANGED <<root_directory, pending_selection, threads, processor_thread,
                   tree_loader_thread,
                   restorer_thread, buttonVars>>
    /\ UnchangedOutsideApp

\* slot FileMergerApp.finalize_tree_building
on_tree_loaded ==
    /\ Delivered("tree_loaded")
    /\ \E done \in {finalize_tree_building(Widget,
                                             pending_selection.selected_files,
                                             root_directory)} :
         /\ SetWidget(done)
         /\ pending_selection' = IF done.failed THEN pending_selection
                                 ELSE NoSelection
    /\ UNCHANGED <<root_directory, threads, processor_thread, tree_loader_thread,
                   restorer_thread, buttonVars>>
    /\ UnchangedOutsideApp

\* slot FileMergerApp.on_tree_loading_finished
on_tree_loading_finished ==
    /\ Delivered("loading_finished")
    /\ progress_bar' = FALSE
    /\ cancel_button' = FALSE
    /\ browse_button' = TRUE
    /\ UNCHANGED <<root_directory, pending_selection, threads, processor_thread,
                   tree_loader_thread,
                   restorer_thread, widgetVars, merge_button>>
    /\ UnchangedOutsideApp

\* slot FileMergerApp.on_merge_finished
on_merge_finished ==
    /\ Delivered("finished_processing")
    /\ progress_bar' = FALSE
    /\ cancel_button' = FALSE
    /\ merge_button' = TRUE
    /\ UNCHANGED <<root_directory, pending_selection, threads, processor_thread,
                   tree_loader_thread,
                   restorer_thread, widgetVars, browse_button>>
    /\ UnchangedOutsideApp

\* slot FileMergerApp.on_restore_finished
on_restore_finished ==
    /\ Delivered("finished_restoring")
    /\ progress_bar' = FALSE
    /\ cancel_button' = FALSE
    /\ UNCHANGED <<root_directory, pending_selection, threads, processor_thread,
                   tree_loader_thread,
                   restorer_thread, widgetVars, merge_button, browse_button>>
    /\ UnchangedOutsideApp

NextApp ==
    \/ \E folder_selected \in RootDirs : browse_folder(folder_selected)
    \/ refresh_tree
    \/ new_project
    \/ merge_files
    \/ \E left \in 0..MaxRestoreFiles : start_file_restoration(left)
    \/ cancel_processing
    \/ \E t \in ThreadIds : ScanWalk(t)
    \/ \E t \in ThreadIds : ScanRest(t)
    \/ \E t \in ThreadIds : ScanDone(t)
    \/ \E t \in ThreadIds : MergeRun(t)
    \/ \E t \in ThreadIds : MergeFail(t)
    \/ \E t \in ThreadIds : RestoreWrite(t)
    \/ \E t \in ThreadIds : RestoreReturn(t)
    \/ on_tree_data_chunk
    \/ on_tree_loaded
    \/ on_tree_loading_finished
    \/ on_merge_finished
    \/ on_restore_finished

SpecApp == InitApp /\ [][NextApp]_vars

\* ------------------------------------------------------------------ claims
AllKids(its, cs, d, s) == \A k \in DOMAIN its : its[k].parent = d => cs[k] = s

HasChild(its, d) == \E k \in DOMAIN its : its[k].parent = d

TriStateRule(its, cs, d) ==
    /\ cs[d] = Checked <=> AllKids(its, cs, d, Checked)
    /\ cs[d] = Unchecked <=> AllKids(its, cs, d, Unchecked)
    /\ cs[d] = PartiallyChecked <=>
         ~AllKids(its, cs, d, Checked) /\ ~AllKids(its, cs, d, Unchecked)

\* C1, as claimed: every directory item is Included iff all its children are
\* Included, Excluded iff all its children are Excluded, PartiallyIncluded
\* otherwise.
C1_TriStateEveryDirectory ==
    \A d \in DOMAIN items : items[d].is_dir => TriStateRule(items, checkState, d)

\* C1, amended: after any sequence of toggles, select-all and select-none on a
\* built tree, every directory item that has at least one child is Included iff
\* all its children are Included, Excluded iff all its children are Excluded,
\* and PartiallyIncluded otherwise.
C1_TriStateNonEmptyDirectory ==
    \A d \in DOMAIN items :
        (items[d].is_dir /\ HasChild(items, d)) => TriStateRule(items, checkState, d)

\* C1 witness: a toggle left a directory PartiallyIncluded because one of its
\* children is itself PartiallyIncluded.
C1_Witness ==
    /\ lastOp = "toggle"
    /\ \E d, k \in DOMAIN items :
         /\ items[k].parent = d
         /\ checkState[d] = PartiallyChecked
         /\ checkState[k] = PartiallyChecked

\* C5: a toggle that sets a directory to Included (resp. Excluded) leaves every
\* descendant, at every depth, Included (resp. Excluded), and changes the state
\* of no item outside the subtree other than the directory's ancestors.
C5_DownwardPropagation ==
    [][(lastOp' = "toggle" /\ items[lastItem'].is_dir) =>
         /\ checkState'[lastItem'] \in {Checked, Unchecked}
         /\ \A d \in Descendants(items, lastItem') :
              checkState'[d] = checkState'[lastItem']
         /\ \A m \in DOMAIN items :
              (m # lastItem' /\ m \notin Descendants(items, lastItem')
                 /\ m \notin Ancestors(items, lastItem'))
              => checkState'[m] = checkState[m]]_vars

\* C5 witness: the toggled directory has a grandchild, and an item outside its
\* subtree and its ancestors holds a different state.
C5_Witness ==
    /\ lastOp = "toggle"
    /\ lastItem # 0
    /\ items[lastItem].is_dir
    /\ \E g \in Descendants(items, lastItem) : items[g].parent # lastItem
    /\ \E m \in DOMAIN items :
         /\ m # lastItem
         /\ m \notin Descendants(items, lastItem)
         /\ m \notin Ancestors(items, lastItem)
         /\ checkState[m] # checkState[lastItem]

RECURSIVE PathOf(_, _)
PathOf(its, n) ==
    IF its[n].parent = 0 THEN <<n>> ELSE Append(PathOf(its, its[n].parent), n)

\* Depth-first tree order: at the first place where the paths of a and b part,
\* a's item comes before b's among the children of their common parent.
TreeBefore(its, a, b) ==
    LET pa == PathOf(its, a)
        pb == PathOf(its, b)
    IN  \E i \in 1..Len(pa) :
          /\ i <= Len(pb)
          /\ \A j \in 1..(i - 1) : pa[j] = pb[j]
          /\ pa[i] < pb[i]

IncludedFiles(its, cs) == {n \in DOMAIN its : ~its[n].is_dir /\ cs[n] = Checked}

C2_RoundTripIdentity ==
    pc = "restored" =>
        \A f \in IncludedFiles(items, checkState) :
            /\ RelPath(f) \in DOMAIN disk
            /\ disk[RelPath(f)] = content[f]

\* C3: restore writes no path but the paths of the files that were Included
\* when the artifact was written.
C3_RestoredPathsWereIncluded ==
    pc = "restored" =>
        DOMAIN disk \subseteq {RelPath(f) : f \in IncludedFiles(items, checkState)}

\* C10: an artifact holding at least one file block is parsed with the framing
\* of the format it was written in, whatever the embedded file texts are.
C10_ParsedInWrittenFormat ==
    (pc = "restored" /\ blocks # <<>>) => (outcome.md <=> format = "md")

\* The worker threads of a kind whose run has not returned.
Running(kind) == {t \in ThreadIds : threads[t].kind = kind /\ threads[t].running}
Queued(sig) == {k \in DOMAIN queue : queue[k].sig = sig}

\* C6: every merge worker that was started has emitted a completion outcome
\* once its run has ended, a cancelled one too, so that the coordinator leaves
\* its busy state: when no merge worker runs and no completion of one waits in
\* the queue, the merge control is enabled.
C6_MergeAlwaysReported ==
    (Running("merge") = {} /\ Queued("finished_processing") = {}) => merge_button

\* C7: every scan worker that was started has emitted a completion outcome once
\* its run has ended, a cancelled one too: when no scan worker runs and no
\* completion of one waits in the queue, the browse control is enabled.
C7_ScanAlwaysReported ==
    (Running("scan") = {} /\ Queued("loading_finished") = {}) => browse_button

\* The tree a merge worker reads: the children of the root and of every item
\* below it.
ShownTree == [n \in {0} \cup Shown |-> tree_kids[n]]

\* C8: while a merge worker is in flight the selection tree is neither cleared
\* nor rebuilt.
C8_TreeStableWhileMerging ==
    [][Running("merge") # {} => ShownTree' = ShownTree]_vars

\* C9: at most one worker runs at a time, a worker that was asked to stop
\* aside.
C9_SingleWorker ==
    Cardinality({t \in ThreadIds : threads[t].running /\ ~threads[t].should_cancel}) <= 1

\* ------------------------------------------------------ status-only blocks
\* The block _write_single_file wrote for the file f of the merge.
BlockText(f) ==
    write_single_file(format, f, content[f], f \notin unreadable, max_size_spin * MiB)

RECURSIVE BlocksLen(_)
BlocksLen(bl) == IF bl = <<>> THEN 0 ELSE Len(BlockText(Head(bl))) + BlocksLen(Tail(bl))

\* The indexes of the merge file that the i-th block of the merge takes.
BlockSpan(i) ==
    LET first == Len(artifact) - BlocksLen(SubSeq(blocks, i, Len(blocks))) + 1
    IN  first..(first + Len(BlockText(blocks[i])) - 1)

HasStatus(f) == written[f].status # <<>>

\* C11: a block whose header carries a status (too large, binary, error) is
\* never restored, in either format: no file block that restore extracts from
\* the merge file starts inside a status block, and the number of files restore
\* attempts is the number of blocks it extracted.
C11_StatusBlocksNotRestored ==
    (pc \in {"restored", "again"} /\ merge_file = "merged") =>
        /\ \A i \in DOMAIN blocks :
             HasStatus(blocks[i]) => BlockSpan(i) \cap outcome.from = {}
        /\ outcome.total_files = Cardinality(outcome.from)

\* A plain-text merge file with a status block before a block with content
\* was restored.
C11_Witness ==
    /\ pc = "restored" /\ merge_file = "merged" /\ format = "txt"
    /\ outcome.success
    /\ \E i, j \in DOMAIN blocks :
         i < j /\ HasStatus(blocks[i]) /\ written[blocks[j]].embedded

\* ------------------------------------------------ structural restore failures
\* The chosen file has the section marker but yields no file block.
YieldsNoBlocks ==
    /\ FindMarker(MergeFileText) # 0
    /\ extract_file_blocks(SubSeq(MergeFileText, FindMarker(MergeFileText),
                                  Len(MergeFileText))) = <<>>

\* C12: when the merge file cannot be read, has no 'File Contents' marker or
\* yields zero file blocks, restore returns failure with the message of that
\* case, and it has created no directory and written no file under the
\* destination.
C12_StructuralFailureWritesNothing ==
    pc = "restored" =>
        /\ merge_file = "unreadable" => outcome.message = MSG_READ
        /\ (merge_file # "unreadable" /\ FindMarker(MergeFileText) = 0)
               => outcome.message = MSG_MARKER
        /\ (merge_file # "unreadable" /\ YieldsNoBlocks)
               => outcome.message = MSG_EMPTY
        /\ outcome.message \in {MSG_READ, MSG_MARKER, MSG_EMPTY}
               => (~outcome.success /\ ~dest_created /\ disk = <<>>)

\* Each of the three failures happened: an unreadable file, a text file
\* without the marker, a merge file whose blocks are all dropped.
C12_Witness ==
    /\ pc = "restored" /\ ~outcome.success /\ ~dest_created
    /\ merge_file = "merged" /\ blocks # <<>> /\ outcome.message = MSG_EMPTY
C12_WitnessNoMarker ==
    pc = "restored" /\ merge_file = "other" /\ outcome.message = MSG_MARKER
C12_WitnessUnreadable ==
    pc = "restored" /\ merge_file = "unreadable" /\ outcome.message = MSG_READ

\* ------------------------------------------------------- writes that fail
\* The file blocks restore extracts from the chosen file.
Extracted ==
    IF merge_file = "unreadable" \/ FindMarker(MergeFileText) = 0 THEN <<>>
    ELSE extract_file_blocks(SubSeq(MergeFileText, FindMarker(MergeFileText),
                                    Len(MergeFileText)))

Writable(bl) == {i \in DOMAIN bl : bl[i].path \notin unwritable}

\* C13: a write that fails does not abort the batch: every block with a path
\* that can be written is on disk afterwards, also the ones after the failed
\* write; restored_count is the number of writes that succeeded and never
\* exceeds total_files; the outcome is success.
C13_WriteFailureDoesNotAbort ==
    (pc = "restored" /\ Extracted # <<>>) =>
        /\ outcome.success
        /\ outcome.total_files = Len(Extracted)
        /\ outcome.restored_count = Cardinality(Writable(Extracted))
        /\ outcome.restored_count <= outcome.total_files
        /\ DOMAIN disk = {Extracted[i].path : i \in Writable(Extracted)}

\* The write of the first block failed and a later block was written.
C13_Witness ==
    /\ pc = "restored" /\ outcome.success
    /\ Len(Extracted) >= 2
    /\ Extracted[1].path \in unwritable
    /\ Extracted[2].path \in DOMAIN disk
    /\ outcome.restored_count < outcome.total_files

\* ------------------------------------------------------- a second restore
\* C14: restoring the same merge file a second time into the same destination
\* leaves the files and their contents as the first restore left them, and
\* returns the same outcome and counts.
C14_RestoreIdempotent ==
    [][pc = "restored" =>
         /\ disk' = disk
         /\ outcome'.success = outcome.success
         /\ outcome'.total_files = outcome.total_files
         /\ outcome'.restored_count = outcome.restored_count]_vars

\* A merge file with blocks was restored twice, one write failing both times.
C14_Witness ==
    /\ pc = "again" /\ outcome.success
    /\ outcome.restored_count >= 1
    /\ outcome.restored_count < outcome.total_files

\* ------------------------------------------------------------- large files
\* The text of the merge file at the indexes of the i-th block.
BlockInArtifact(i) ==
    SubSeq(artifact, Min(BlockSpan(i) \cup {Len(artifact) + 1}),
           Max(BlockSpan(i) \cup {0}))

TooLarge(f) == getsize(content[f]) > max_size_spin * MiB

\* C15: an Included file larger than the configured maximum gets a block that
\* is its header with the too-large status and nothing else, and the file is
\* never opened, whatever its content; a file of at most the maximum is not
\* given that status.
C15_LargeFilePolicy ==
    pc # "select" =>
        \A i \in DOMAIN blocks :
            LET f == blocks[i] IN
            /\ TooLarge(f) =>
                   /\ ~written[f].opened /\ ~written[f].embedded
                   /\ BlockInArtifact(i)
                        = write_file_header(format, f, <<STATUS_TOO_LARGE>>)
            /\ ~TooLarge(f) => written[f].status # <<STATUS_TOO_LARGE>>

\* A file over the ceiling that holds a NUL and that open() would raise on was
\* merged.
C15_Witness ==
    /\ pc = "merged"
    /\ \E f \in Range(blocks) :
         TooLarge(f) /\ NUL \in Range(content[f]) /\ f \in unreadable

\* A file of exactly the ceiling was merged with its content.
C15_WitnessAtCeiling ==
    /\ pc = "merged"
    /\ \E f \in Range(blocks) :
         getsize(content[f]) = max_size_spin * MiB /\ written[f].embedded

\* ---------------------------------------------------------- binary files
\* The characters of atom i of a text are the characters First(..)..Last(..)
\* of the text.
LastChar(text, i) == TextLen(SubSeq(text, 1, i))
FirstChar(text, i) == LastChar(text, i) - CharLen(text[i]) + 1

\* How many of the first n characters of a text are control characters other
\* than tab, newline and carriage return.
RECURSIVE ControlsAmong(_, _, _)
ControlsAmong(text, n, i) ==
    IF i > Len(text) THEN 0
    ELSE (IF text[i] \in {CTL, CTL300, NUL}
          THEN Cardinality((FirstChar(text, i)..LastChar(text, i)) \cap (1..n))
          ELSE 0)
         + ControlsAmong(text, n, i + 1)

\* Binary as the rule states it: a NUL anywhere, or more than 30% control
\* characters among the first 1000 characters (among all when there are fewer).
BinaryByRule(text) ==
    LET n == IF TextLen(text) < 1000 THEN TextLen(text) ELSE 1000
    IN  \/ \E i \in DOMAIN text : text[i] = NUL
        \/ /\ n > 0
           /\ 100 * ControlsAmong(text, n, 1) > 30 * n

\* C16: a file that is read (not over the ceiling, open() not raising) is
\* classified binary exactly when its content is binary by the rule; empty
\* content is not binary; a binary file gets a block that is its header with
\* the binary status and nothing else.
C16_BinaryDetection ==
    pc # "select" =>
        \A i \in DOMAIN blocks :
            LET f == blocks[i] IN
            (~TooLarge(f) /\ f \notin unreadable) =>
                /\ written[f].status = <<STATUS_BINARY>> <=> BinaryByRule(content[f])
                /\ content[f] = <<>> => written[f].embedded
                /\ BinaryByRule(content[f]) =>
                       /\ ~written[f].embedded
                       /\ BlockInArtifact(i)
                            = write_file_header(format, f, <<STATUS_BINARY>>)
                /\ ~BinaryByRule(content[f]) => written[f].embedded

\* A file with 301 control characters among its first 1000 was merged as binary.
C16_Witness ==
    /\ pc = "merged"
    /\ \E f \in Range(blocks) :
         /\ content[f] = <<CTL300, CTL, A699>>
         /\ written[f].status = <<STATUS_BINARY>>

\* A file with 300 control characters among its first 1000 and one more after
\* them was merged with its content.
C16_WitnessBelow ==
    /\ pc = "merged"
    /\ \E f \in Range(blocks) :
         content[f] = <<A699, "a", CTL300, CTL>> /\ written[f].embedded

\* ------------------------------------------------------- files open() fails on
\* The indexes at which the text t occurs in the merge file.
Occurrences(t) ==
    {k \in 1..(Len(artifact) - Len(t) + 1) : SubSeq(artifact, k, k + Len(t) - 1) = t}

\* C17: a file that cannot be read does not end the merge: the merge file
\* holds exactly one block for it, its header with the error status and nothing
\* else, every Included file still has its block, and the blocks after it are
\* written as without the error.
C17_ReadErrorDoesNotAbort ==
    pc # "select" =>
        /\ Range(blocks) = IncludedFiles(items, checkState)
        /\ \A i \in DOMAIN blocks :
             LET f == blocks[i] IN
             (f \in unreadable /\ ~TooLarge(f)) =>
                 /\ BlockInArtifact(i) = write_file_header(format, f, <<STATUS_ERROR>>)
                 /\ Cardinality(Occurrences(
                        write_file_header(format, f, <<STATUS_ERROR>>))) = 1
                 /\ \A j \in DOMAIN blocks :
                      j > i =>
                        BlockInArtifact(j)
                          = write_file_header(format, blocks[j], written[blocks[j]].status)
                            \o (IF written[blocks[j]].embedded
                                THEN write_file_content(format, content[blocks[j]])
                                ELSE <<>>)

\* A file that cannot be read was merged before a file that was embedded.
C17_Witness ==
    /\ pc = "merged"
    /\ \E i, j \in DOMAIN blocks :
         /\ i < j
         /\ blocks[i] \in unreadable /\ ~TooLarge(blocks[i])
         /\ written[blocks[j]].embedded

\* ============================================================ ignore matcher
\* SpecIgnore: should_ignore_path called once on one path, under every list of
\* at most MaxPatterns patterns and under the rules of the README.
MaxPatterns == 2

Star == <<"*">>
StarDotPyc == <<"*", ".", "p", "y", "c">>
NodeModules == Chars(9)
BuildStar == <<"b", "u", "i", "l", "d", "*">>
Patterns ==
    {StarDotPyc, NodeModules, BuildStar, Star, <<"*", ".", "c">>, <<"b", "*">>,
     <<"*", "a", "*">>, <<"a", "*", "c">>, <<"b">>, <<"?">>, <<".", "*">>,
     <<"b", "?">>}

ExampleRules == <<StarDotPyc, NodeModules, BuildStar>>

IgnoreLists ==
    {ExampleRules} \cup UNION {[1..n -> Patterns] : n \in 0..MaxPatterns}

InitIgnore ==
    /\ items = <<>>
    /\ checkState = <<>>
    /\ updating = FALSE
    /\ lastOp = "build"
    /\ lastItem = 0
    /\ passes = NoPasses
    /\ pc = "match"
    /\ blocks = <<>>
    /\ visited = {}
    /\ manifest = <<>>
    /\ NoText
    /\ Constructed
    /\ fs = DefaultFs
    /\ ignore_list \in IgnoreLists
    /\ include_hidden \in BOOLEAN
    /\ probe \in {<<1, name>> : name \in Names}
    /\ ignored = <<>>

\* One call of TreeLoaderThread.should_ignore_path.
Match ==
    /\ pc = "match"
    /\ ignored = <<>>
    /\ ignored' = <<should_ignore_path(probe, ignore_list, include_hidden)>>
    /\ UNCHANGED <<treeVars, mergeVars, textVars, root_directory,
                 pending_selection, threadVars,
                   widgetVars, buttonVars, fs, ignore_list, include_hidden, probe>>

NextIgnore == Match

SpecIgnore == InitIgnore /\ [][NextIgnore]_vars

\* ------------------------------------------------------------------ C18
Matched == pc = "match" /\ ignored # <<>>
ProbeName == Chars(probe[Len(probe)])

HiddenRule == ~include_hidden /\ Head(ProbeName) = "."
EqualRule == \E k \in DOMAIN ignore_list : ignore_list[k] = ProbeName
SuffixRule(pattern) ==
    Head(pattern) = "*" /\ endswith(ProbeName, Tail(pattern))
PrefixRule(pattern) ==
    /\ pattern[Len(pattern)] = "*"
    /\ startswith(ProbeName, SubSeq(pattern, 1, Len(pattern) - 1))
GlobRule(pattern) == "*" \in Range(pattern) /\ fnmatch(ProbeName, pattern)

\* C18: the ignore matcher answers true exactly when hidden entries are left
\* out and the name starts with a dot, or the name equals a pattern, or some
\* pattern starts with * and the name ends with the rest of it, or ends with *
\* and the name starts with the rest of it, or contains * and glob-matches the
\* name; with the rules *.pyc, node_modules, build* and hidden entries left
\* out, app.pyc, node_modules, build_output and .env are ignored and main.go
\* is not.
C18_IgnoreMatcher ==
    Matched =>
      /\ ignored[1] = (\/ HiddenRule
                       \/ EqualRule
                       \/ \E k \in DOMAIN ignore_list :
                            \/ SuffixRule(ignore_list[k])
                            \/ PrefixRule(ignore_list[k])
                            \/ GlobRule(ignore_list[k]))
      /\ ignore_list = ExampleRules /\ ~include_hidden =>
           /\ probe[Len(probe)] \in {8, 9, 10, 11} => ignored[1] = TRUE
           /\ probe[Len(probe)] = 12 => ignored[1] = FALSE

\* The matcher said yes on the strength of the glob rule alone: a pattern with
\* a leading * whose rest is no suffix of the name.
C18_Witness ==
    /\ Matched
    /\ ignored[1] = TRUE
    /\ ~HiddenRule
    /\ ~EqualRule
    /\ \A k \in DOMAIN ignore_list :
         ~SuffixRule(ignore_list[k]) /\ ~PrefixRule(ignore_list[k])
    /\ \E k \in DOMAIN ignore_list : Head(ignore_list[k]) = "*"

\* The rules of the example on build_output, and on main.go.
C18_WitnessExample ==
    Matched /\ ignore_list = ExampleRules /\ ~include_hidden
    /\ probe[Len(probe)] = 10 /\ ignored[1] = TRUE

C18_WitnessExampleKept ==
    Matched /\ ignore_list = ExampleRules /\ ~include_hidden
    /\ probe[Len(probe)] = 12 /\ ignored[1] = FALSE

\* ================================================================= one scan
\* SpecScan: one folder is chosen and scanned to its end, on every folder of at
\* most MaxEntries files and directories whose names are among ScanNames, with
\* a few ignore lists, hidden entries in and out.
MaxEntries == 3

ScanRoot == <<1>>
ScanNames == {1, 2, 7}

\* The folders that hold one entry more than the folder of entries es.
Grow(es) ==
    LET parents == {ScanRoot} \cup {e.path : e \in {x \in es : x.is_dir}}
        free == {path \in {parent \o <<name>> : parent \in parents, name \in ScanNames} :
                   \A e \in es : e.path # path}
    IN  {es \cup {[path |-> path, is_dir |-> is_dir]} :
           path \in free, is_dir \in BOOLEAN}

RECURSIVE Folders(_)
Folders(k) ==
    IF k = 0 THEN {{}}
    ELSE With(Folders(k - 1), LAMBDA prev :
           prev \cup UNION {Grow(es) : es \in prev})

\* The names of set in the order the operating system lists them: here by
\* number, up or down.
Listing(set, up) ==
    [r \in 1..Cardinality(set) |->
       CHOOSE x \in set :
         Cardinality({y \in set : IF up THEN y < x ELSE y > x}) = r - 1]

\* What os.walk finds in the folder of entries es.
FsOf(es, up) ==
    [dirpath \in {ScanRoot} \cup {e.path : e \in {x \in es : x.is_dir}} |->
       [dirs |-> Listing({name \in ScanNames :
                            [path |-> dirpath \o <<name>>, is_dir |-> TRUE] \in es},
                         up),
        files |-> Listing({name \in ScanNames :
                             [path |-> dirpath \o <<name>>, is_dir |-> FALSE] \in es},
                          up)]]

ScanIgnoreLists == {<<>>, <<Chars(2)>>, <<<<"*", "a">>>>, <<<<"B", "*">>>>}

InitScan ==
    /\ items = <<>>
    /\ checkState = <<>>
    /\ updating = FALSE
    /\ lastOp = "build"
    /\ lastItem = 0
    /\ passes = NoPasses
    /\ pc = "scan"
    /\ blocks = <<>>
    /\ visited = {}
    /\ manifest = <<>>
    /\ NoText
    /\ Constructed
    /\ fs \in {FsOf(es, up) : es \in Folders(MaxEntries), up \in BOOLEAN}
    /\ ignore_list \in ScanIgnoreLists
    /\ include_hidden \in BOOLEAN
    /\ probe = <<>>
    /\ ignored = <<>>

\* The folder is chosen once.
ChooseFolder == threads = <<>> /\ browse_folder(ScanRoot)

NextScan ==
    \/ ChooseFolder
    \/ \E t \in ThreadIds : ScanWalk(t)
    \/ \E t \in ThreadIds : ScanRest(t)
    \/ \E t \in ThreadIds : ScanDone(t)
    \/ on_tree_data_chunk
    \/ on_tree_loaded
    \/ on_tree_loading_finished

SpecScan == InitScan /\ [][NextScan]_vars

\* The scan has run to its end and the window has handled all it emitted.
Completed ==
    /\ pc = "scan"
    /\ threads # <<>>
    /\ \A t \in ThreadIds : ~threads[t].running
    /\ queue = <<>>

\* ------------------------------------------------------------------ C19
\* The matcher says yes to path or to a directory on the way to it from the
\* scanned folder.
IgnoredOnWay(path) ==
    \E k \in 2..Len(path) :
        should_ignore_path(SubSeq(path, 1, k), ignore_list, include_hidden)

\* C19: no entry the ignore matcher says yes to becomes an item of the tree,
\* and nothing under an ignored directory is visited, collected, emitted or
\* made an item, whatever its own name.
C19_Pruning ==
    pc = "scan" =>
      /\ \A k \in DOMAIN objs : ~IgnoredOnWay(objs[k].full_path)
      /\ \A t \in ThreadIds :
           /\ \A k \in DOMAIN threads[t].todo : ~IgnoredOnWay(threads[t].todo[k])
           /\ \A k \in DOMAIN threads[t].tree_data :
                ~IgnoredOnWay(threads[t].tree_data[k].full_path)
      /\ \A q \in DOMAIN queue :
           queue[q].sig = "tree_data_chunk" =>
             \A k \in DOMAIN queue[q].arg : ~IgnoredOnWay(queue[q].arg[k].full_path)

\* A completed scan of a folder with an ignored directory that holds an entry
\* the matcher says no to, next to an entry that is shown.
C19_Witness ==
    /\ Completed
    /\ Shown # {}
    /\ \E dirpath \in DOMAIN fs \ {ScanRoot} :
         /\ should_ignore_path(dirpath, ignore_list, include_hidden)
         /\ \E name \in Range(fs[dirpath].dirs) \cup Range(fs[dirpath].files) :
              ~should_ignore_path(dirpath \o <<name>>, ignore_list, include_hidden)

\* ------------------------------------------------------------------ C20
\* Item a may stand before item b among the children of one parent:
\* directories before files, each group by lower-cased name.
MayPrecede(a, b) ==
    \/ a.is_dir /\ ~b.is_dir
    \/ /\ a.is_dir = b.is_dir
       /\ ~StrLess(lower(basename(b.full_path)), lower(basename(a.full_path)))

\* C20: after a completed scan the children of every item and of the root are
\* ordered directories first, then files, each group by case-insensitive
\* name.
C20_ChildOrder ==
    Completed =>
      \A n \in DOMAIN tree_kids :
        \A i, j \in DOMAIN tree_kids[n] :
          i < j => MayPrecede(objs[tree_kids[n][i]], objs[tree_kids[n][j]])

\* ------------------------------------------------------------------ C22
\* The Included files that are reached from item n through directories that
\* are not Excluded.
ReachableIncluded(its, cs, n) ==
    {f \in IncludedFiles(its, cs) :
       /\ n = 0 \/ n \in Ancestors(its, f)
       /\ \A d \in Ancestors(its, f) :
            (n = 0 \/ n \in Ancestors(its, d)) => cs[d] # Unchecked}

\* C22: counting from any item gives the number of Included files reachable
\* from it through directories that are not Excluded, and after an uncancelled
\* merge on an unchanged tree the count from the root is the number of file
\* blocks written.
C22_CountSelectedFiles ==
    /\ \A n \in {0} \cup {d \in DOMAIN items : items[d].is_dir} :
         count_selected_files(items, checkState, n)
           = Cardinality(ReachableIncluded(items, checkState, n))
    /\ pc = "merged" => count_selected_files(items, checkState, 0) = Len(blocks)

\* C22 witness: a merge that wrote a block for a file of a PartiallyIncluded
\* directory and left an Excluded file out.
C22_Witness ==
    /\ pc = "merged"
    /\ Len(blocks) >= 2
    /\ \E f \in Range(blocks) :
         items[f].parent # 0 /\ checkState[items[f].parent] = PartiallyChecked
    /\ \E f \in DOMAIN items : ~items[f].is_dir /\ checkState[f] = Unchecked

\* ------------------------------------------------------------------ C23
\* What restore_selected_files must leave, with the tri-state rule asked of
\* the directories dirs.
SelectionApplied(its, before, after, selected_files, dirs) ==
    /\ \A f \in FilesOf(its) : after[f] = Checked <=> f \in selected_files
    /\ \A f \in FilesOf(its) : after[f] \in {Checked, Unchecked}
    /\ \A d \in dirs : TriStateRule(its, after, d)
    /\ selected_files = IncludedFiles(its, before) =>
         \A f \in FilesOf(its) : after[f] = before[f]

SelectedFilesAreIncluded ==
    \E selected \in {get_selected_files(items, checkState)} :
      /\ Range(selected) = IncludedFiles(items, checkState)
      /\ Len(selected) = Cardinality(Range(selected))

OnePropagation ==
    /\ lastOp' = "toggle" =>
         /\ passes' = [handler |-> 1, down |-> 1, up |-> 1]
         /\ checkState' = handle_item_changed(items,
                [checkState EXCEPT ![lastItem'] = ClickedState(@)], lastItem')
    /\ lastOp' \in {"all", "none"} =>
         /\ passes' = NoPasses
         /\ checkState' = SetAll(items, checkState,
                                 IF lastOp' = "all" THEN Checked ELSE Unchecked)

C24_ToggleGuard == [](~updating) /\ [][OnePropagation]_vars

\* A click on a directory with a parent, a sibling and a child has been
\* processed: its walk down and its walk up both raised notifications.
C24_Witness ==
    /\ lastOp = "toggle"
    /\ items[lastItem].parent # 0
    /\ Len(Children(items, lastItem)) >= 1
    /\ checkState[lastItem] = Unchecked
    /\ checkState[items[lastItem].parent] = PartiallyChecked
    /\ passes.handler = 1

\* ------------------------------------------------------------------- C28
\* The block of the merge that the k-th extracted file block was read from:
\* the one whose text holds the header the block starts with.
OwnBlock(k) ==
    CHOOSE i \in DOMAIN blocks :
        (Extracted[k].start + FindMarker(MergeFileText) - 1) \in BlockSpan(i)

IsPartOf(part, whole) ==
    \E k \in 1..(Len(whole) - Len(part) + 1) :
        SubSeq(whole, k, k + Len(part) - 1) = part

\* C28: in a markdown merge file the content restore extracts for a file block
\* is text from between the fences of that block: it is a part of the content
\* the merge wrote there, with nothing of the closing fence and nothing of a
\* block that follows.
C28_ContentWithinOwnFence ==
    (pc = "restored" /\ merge_file = "merged" /\ format = "md") =>
        \A k \in DOMAIN Extracted :
            IsPartOf(Extracted[k].content, content[blocks[OwnBlock(k)]])

\* ------------------------------------------------------------------- C29
\* The blocks of the merge that carry no status.
BlocksWithoutStatus == {i \in DOMAIN blocks : ~HasStatus(blocks[i])}

\* C29: every block without a status is restored: restore attempts as many
\* files as the merge file has blocks without a status, empty and
\* whitespace-only files among them, each from its own block.
C29_EveryPlainBlockRestored ==
    (pc = "restored" /\ merge_file = "merged") =>
        /\ outcome.total_files = Cardinality(BlocksWithoutStatus)
        /\ \A i \in BlocksWithoutStatus : BlockSpan(i) \cap outcome.from # {}

\* ------------------------------------------------------------------- C26
\* The main thread takes a chunk or a completion that a scan other than the
\* current one emitted.
EarlierScanDelivered ==
    /\ queue # <<>>
    /\ queue' = Tail(queue)
    /\ Head(queue).sig \in {"tree_data_chunk", "tree_loaded"}
    /\ Head(queue).from # tree_loader_thread

\* The current scan ran to its end and all it emitted has been handled.
ScanCompleted ==
    /\ tree_loader_thread # 0
    /\ root_directory # None
    /\ ~threads[tree_loader_thread].running
    /\ ~threads[tree_loader_thread].should_cancel
    /\ \A k \in DOMAIN queue : queue[k].from # tree_loader_thread

\* C26: after a scan is restarted, no chunk and no completion of the earlier
\* scan changes the tree or the lookup caches of the new scan, and once the
\* new scan is complete the tree holds no entry twice and no entry from
\* outside the new root.
C26_EarlierScanIgnored ==
    /\ [][EarlierScanDelivered => UNCHANGED widgetVars]_vars
    /\ [](ScanCompleted =>
            \A a, b \in Shown :
                /\ objs[a].full_path = objs[b].full_path => a = b
                /\ startswith(objs[a].full_path, root_directory))

\* ------------------------------------------- the tree while the workers run
\* SpecLive: a folder large enough for two chunks is scanned and the user
\* clicks check boxes while the chunks arrive.

\* The folder: nine directories of ten files each, which with the ten
\* entries of the folder itself fill one chunk, and after them directory b
\* with one file.
FillDirs == 101..109
FillFiles == 111..120
Counting(set) ==
    [k \in 1..Cardinality(set) |->
       CHOOSE x \in set : Cardinality({y \in set : y < x}) = k - 1]

LiveFs ==
    [dirpath \in {ScanRoot} \cup {ScanRoot \o <<d>> : d \in FillDirs \cup {4}} |->
       IF dirpath = ScanRoot
       THEN [dirs |-> Counting(FillDirs) \o <<4>>, files |-> <<>>]
       ELSE IF dirpath = ScanRoot \o <<4>>
       THEN [dirs |-> <<>>, files |-> <<6>>]
       ELSE [dirs |-> <<>>, files |-> Counting(FillFiles)]]

\* The items the user clicks: directory b and its file, the first of the
\* other directories and its first file.
ClickedPaths ==
    {ScanRoot \o <<4>>, ScanRoot \o <<4, 6>>,
     ScanRoot \o <<101>>, ScanRoot \o <<101, 111>>}

InitLive ==
    /\ items = <<>>
    /\ checkState = <<>>
    /\ updating = FALSE
    /\ lastOp = "build"
    /\ lastItem = 0
    /\ passes = NoPasses
    /\ pc = "live"
    /\ blocks = <<>>
    /\ visited = {}
    /\ manifest = <<>>
    /\ NoText
    /\ Constructed
    /\ fs = LiveFs
    /\ ignore_list = <<>>
    /\ include_hidden = FALSE
    /\ probe = <<>>
    /\ ignored = <<>>

\* The user clicks the check box of an item of the tree: Qt sets the new state
\* and emits itemChanged, which runs handle_item_changed. touched is history:
\* the merge workers that were running when the selection changed.
ItemClickedShown(id) ==
    /\ id \in Shown
    /\ \E view \in {ViewOf(Widget)} :
         LET item == PosOf(view.order, id) IN
         objs' = WithStates(Widget, view,
                     handle_item_changed(view.its,
                         [view.cs EXCEPT ![item] = ClickedState(@)], item))
    /\ threads' = [t \in DOMAIN threads |->
                      IF threads[t].kind = "merge" /\ threads[t].running
                      THEN [threads[t] EXCEPT !.touched = TRUE] ELSE threads[t]]
    /\ lastOp' = "toggle"
    /\ lastItem' = objs[id].full_path
    /\ UNCHANGED <<items, checkState, updating, passes, mergeVars, textVars>>
    /\ UNCHANGED <<root_directory, pending_selection, processor_thread,
                   tree_loader_thread,
                   restorer_thread, queue, tree_kids, items_by_path,
                   pending_items, buttonVars, scanVars>>

ItemClickedLive(id) == objs[id].full_path \in ClickedPaths /\ ItemClickedShown(id)

\* The lines of the manifest for the tree as it is, each naming its item by
\* its path.
ManifestOf(w) ==
    With(ViewOf(w), LAMBDA view :
      With(write_tree_summary(view.its, view.cs, 0, <<>>), LAMBDA lines :
        [k \in DOMAIN lines |->
           [lines[k] EXCEPT !.name = w.objs[view.order[lines[k].name]].full_path]]))

NextLive ==
    \/ ChooseFolder
    \/ \E t \in ThreadIds : ScanWalk(t)
    \/ \E t \in ThreadIds : ScanRest(t)
    \/ \E t \in ThreadIds : ScanDone(t)
    \/ on_tree_data_chunk
    \/ on_tree_loaded
    \/ on_tree_loading_finished
    \/ \E id \in DOMAIN objs : ItemClickedLive(id)

SpecLive == InitLive /\ [][NextLive]_vars

\* ------------------------------------------------------------------- C25
IsBelow(path, dirpath) == Len(dirpath) < Len(path) /\ startswith(path, dirpath)

\* C25: at every moment, also while a scan delivers its chunks and the user
\* clicks between two of them, no Excluded directory of the tree has an
\* Included item below it.
C25_NoIncludedBelowExcluded ==
    pc = "live" =>
      \A d, n \in Shown :
          (objs[d].is_dir /\ objs[d].check = Unchecked
             /\ IsBelow(objs[n].full_path, objs[d].full_path))
            => objs[n].check # Checked

\* ------------------------------------------- the merge worker, step by step
\* The merge worker walks the tree of the window in its own thread, one poll
\* of the cancel flag and one child at a step.
\* SpecMerge: a small folder is scanned and merged once, and the user clicks
\* check boxes at any moment.
\* SpecManifest: the folder is scanned, merged and scanned again, one after
\* the other, and the user clicks check boxes between the runs.

\* The loop over the children of item, about to start.
Cursor(item, prefix) == [item |-> item, index |-> 1, prefix |-> prefix]

\* The poll of the workers' loops that never sees the flag.
never_cancelled(self) == FALSE

\* if self.should_cancel: break
cancelled(self) == self.should_cancel

\* The line of _write_tree_summary with the number of the run before the name.
summary_line_stamped(prefix, is_last_child, check_state, full_path, is_dir) ==
    [prefix |-> prefix,
     connector |-> IF is_last_child THEN CONNECTOR_LAST ELSE CONNECTOR_TEE,
     status_icon |-> status_icon(check_state),
     name |-> <<Len(threads)>> \o full_path,
     size |-> ~is_dir /\ check_state = Checked]

\* The line _write_tree_summary writes for one child.
summary_line(prefix, is_last_child, check_state, full_path, is_dir) ==
    [prefix |-> prefix,
     connector |-> IF is_last_child THEN CONNECTOR_LAST ELSE CONNECTOR_TEE,
     status_icon |-> status_icon(check_state),
     name |-> full_path,
     size |-> ~is_dir /\ check_state = Checked]

\* The selection as the window shows it: the state of every item, by path.
SelectionByPath == {<<objs[n].full_path, objs[n].check>> : n \in Shown}

Top(stack) == stack[Len(stack)]
Pop(stack) == SubSeq(stack, 1, Len(stack) - 1)

Walking(t) ==
    /\ threads[t].kind = "merge"
    /\ threads[t].running
    /\ threads[t].phase \in {"manifest", "content"}

\* FileProcessor.process_files up to the call of _write_tree_summary. The
\* count of _count_selected_files is used for the progress display only.
\* snapshot is history: the selection when the worker started.
MergeOpen(t) ==
    /\ Working(t, "merge", "run")
    /\ threads' = [threads EXCEPT ![t].phase = "manifest",
                                  ![t].todo = <<Cursor(0, <<>>)>>,
                                  ![t].snapshot = SelectionByPath]
    /\ queue' = queue
    /\ UnchangedByWorker

\* The head of the loops of _write_tree_summary and _write_files: the loop
\* ends after the last child and breaks when the flag is set.
MergePoll(t) ==
    /\ Walking(t)
    /\ threads[t].todo # <<>>
    /\ ~threads[t].polled
    /\ LET self == threads[t]
           top == Top(self.todo)
       IN  threads' = IF top.index > Len(tree_kids[top.item]) \/ cancelled(self)
                      THEN [threads EXCEPT ![t].todo = Pop(self.todo)]
                      ELSE [threads EXCEPT ![t].polled = TRUE]
    /\ queue' = queue
    /\ UnchangedByWorker

\* The body of the loops of _write_tree_summary and _write_files for one
\* child: its state is read from the tree as it is now.
MergeVisit(t) ==
    /\ Walking(t)
    /\ threads[t].polled
    /\ LET self == threads[t]
           top == Top(self.todo)
           child == tree_kids[top.item][top.index]
           full_path == objs[child].full_path
           is_dir == objs[child].is_dir
           check_state == objs[child].check
           is_last_child == top.index = Len(tree_kids[top.item])
           new_prefix == Append(top.prefix, IF is_last_child THEN PREFIX_BLANK
                                            ELSE PREFIX_BAR)
           next == [self.todo EXCEPT ![Len(self.todo)].index = @ + 1]
           stack == IF is_dir /\ check_state # Unchecked
                    THEN Append(next, Cursor(child, new_prefix)) ELSE next
       IN  threads' =
             IF self.phase = "manifest"
             THEN [threads EXCEPT
                     ![t].manifest = Append(@, summary_line(top.prefix, is_last_child,
                                                 check_state, full_path, is_dir)),
                     ![t].todo = stack, ![t].polled = FALSE]
             ELSE [threads EXCEPT
                     ![t].blocks = IF check_state = Checked /\ ~is_dir
                                   THEN Append(@, full_path) ELSE @,
                     ![t].todo = stack, ![t].polled = FALSE]
    /\ queue' = queue
    /\ UnchangedByWorker

\* process_files after _write_tree_summary has returned: the content section.
MergeTurn(t) ==
    /\ Working(t, "merge", "manifest")
    /\ threads[t].todo = <<>>
    /\ threads' = [threads EXCEPT ![t].phase = "content",
                                  ![t].todo = <<Cursor(0, <<>>)>>]
    /\ queue' = queue
    /\ UnchangedByWorker

\* process_files after _write_files has returned: the completion is emitted
\* unless the flag is set, and run returns.
MergeClose(t) ==
    /\ Working(t, "merge", "content")
    /\ threads[t].todo = <<>>
    /\ threads' = [threads EXCEPT ![t].running = FALSE, ![t].phase = "end"]
    /\ queue' = IF ~threads[t].should_cancel
                THEN Append(queue, Signal("finished_processing", t, TRUE))
                ELSE queue
    /\ UnchangedByWorker

MergeStep(t) ==
    MergeOpen(t) \/ MergePoll(t) \/ MergeVisit(t) \/ MergeTurn(t) \/ MergeClose(t)

\* The folder: directory a with the files b and c.
MergeFs ==
    (ScanRoot :> [dirs |-> <<2>>, files |-> <<>>])
    @@ (ScanRoot \o <<2>> :> [dirs |-> <<>>, files |-> <<4, 6>>])

\* The items the user clicks: the directory and its first file.
MergeClickedPaths == {ScanRoot \o <<2>>, ScanRoot \o <<2, 4>>}

Idle == (\A t \in ThreadIds : ~threads[t].running) /\ queue = <<>>

InitMerge ==
    /\ items = <<>>
    /\ checkState = <<>>
    /\ updating = FALSE
    /\ lastOp = "build"
    /\ lastItem = 0
    /\ passes = NoPasses
    /\ pc = "merge"
    /\ blocks = <<>>
    /\ visited = {}
    /\ manifest = <<>>
    /\ NoText
    /\ Constructed
    /\ fs = MergeFs
    /\ ignore_list = <<>>
    /\ include_hidden = FALSE
    /\ probe = <<>>
    /\ ignored = <<>>

\* The merge is started once, when the scan is over.
MergeOnce == processor_thread = 0 /\ Idle /\ merge_files

NextMerge ==
    \/ ChooseFolder
    \/ \E t \in ThreadIds : ScanWalk(t)
    \/ \E t \in ThreadIds : ScanRest(t)
    \/ \E t \in ThreadIds : ScanDone(t)
    \/ on_tree_data_chunk
    \/ on_tree_loaded
    \/ on_tree_loading_finished
    \/ \E id \in DOMAIN objs :
         objs[id].full_path \in MergeClickedPaths /\ ItemClickedShown(id)
    \/ MergeOnce
    \/ \E t \in ThreadIds : MergeStep(t)
    \/ on_merge_finished

SpecMerge == InitMerge /\ [][NextMerge]_vars

NextManifest ==
    \/ ChooseFolder
    \/ Idle /\ refresh_tree
    \/ \E t \in ThreadIds : ScanWalk(t)
    \/ \E t \in ThreadIds : ScanRest(t)
    \/ \E t \in ThreadIds : ScanDone(t)
    \/ on_tree_data_chunk
    \/ on_tree_loaded
    \/ on_tree_loading_finished
    \/ \E id \in DOMAIN objs : Idle /\ ItemClickedShown(id)
    \/ Idle /\ merge_files
    \/ \E t \in ThreadIds : MergeStep(t)
    \/ on_merge_finished

SpecManifest == InitMerge /\ [][NextManifest]_vars

\* ------------------------------------------------------------------- C21
Merged(t) ==
    /\ threads[t].kind = "merge"
    /\ threads[t].phase = "end"
    /\ ~threads[t].should_cancel

\* C21: two serializations of the unchanged folder, with the same selection
\* that does not change while they run, write the same manifest: the same
\* lines in the same order with the same prefixes and glyphs; it is the
\* manifest of the tree as it stands when the section is complete.
SameManifest ==
    \A t, u \in ThreadIds :
        (Merged(t) /\ Merged(u) /\ ~threads[t].touched /\ ~threads[u].touched
           /\ threads[t].snapshot = threads[u].snapshot)
          => threads[t].manifest = threads[u].manifest

ManifestOfTree ==
    \A t \in ThreadIds :
        (Working(t, "merge", "manifest") /\ threads'[t].phase = "content"
           /\ ~threads[t].touched)
          => threads'[t].manifest = ManifestOf(Widget)

C27_ManifestMatchesContent ==
    pc = "merge" =>
      \A t \in ThreadIds :
        Merged(t) =>
          Range(threads[t].blocks)
            = {threads[t].manifest[k].name :
                 k \in {j \in DOMAIN threads[t].manifest : threads[t].manifest[j].size}}

\* ------------------------------------------ the workers' loops, poll by poll
\* SpecCancel: one worker at a time scans the folder, merges it or restores a
\* merge file, each once and in any order, and the user presses the cancel
\* button at any moment. Every
\* loop is cut where it reads the flag: the poll is one step and the body of
\* the iteration the next. A worker thread that can run does run.

\* Largest number of file blocks of the merge file a cancelled restore reads.
MaxCancelFiles == 2

\* TreeLoaderThread.load_tree_data: os.walk is asked for the next directory. It
\* lists that directory before the body of the loop reads the flag. listed is
\* history: the directories os.walk listed.
WalkNext(t) ==
    /\ Working(t, "scan", "run")
    /\ ~threads[t].polled
    /\ LET self == threads[t] IN
       threads' = IF self.todo = <<>>
                  THEN [threads EXCEPT ![t].phase = "rest"]
                  ELSE [threads EXCEPT ![t].listed = Append(@, Head(self.todo)),
                                       ![t].polled = TRUE]
    /\ queue' = queue
    /\ UnchangedByWorker

\* TreeLoaderThread.load_tree_data: the body of the os.walk loop for the
\* directory just listed.
WalkBody(t) ==
    /\ Working(t, "scan", "run")
    /\ threads[t].polled
    /\ IF cancelled(threads[t])
       THEN /\ threads' = [threads EXCEPT ![t].phase = "rest", ![t].polled = FALSE]
            /\ queue' = queue
       ELSE \E root \in {Head(threads[t].todo)} :
            \E tree_data \in {threads[t].tree_data
                                \o WalkEntries(root, ignore_list, include_hidden)} :
            \E subdirs \in {WalkInto(root, ignore_list, include_hidden)} :
              /\ threads' = [threads EXCEPT
                               ![t].todo = subdirs \o Tail(threads[t].todo),
                               ![t].tree_data = IF Len(tree_data) >= chunk_size
                                                THEN <<>> ELSE tree_data,
                               ![t].polled = FALSE]
              /\ queue' = IF Len(tree_data) >= chunk_size
                          THEN Append(queue, Signal("tree_data_chunk", t, tree_data))
                          ELSE queue
    /\ UnchangedByWorker

\* FileRestorer.restore_files: the head of the loop over the blocks. After
\* the last block the loop ends and the count is returned as a success; with
\* a block left the flag is read. run emits what restore_files returned.
RestorePoll(t) ==
    /\ threads[t].kind = "restore"
    /\ threads[t].running
    /\ ~threads[t].polled
    /\ LET self == threads[t]
           returned(success) ==
             /\ threads' = [threads EXCEPT ![t].running = FALSE, ![t].phase = "end"]
             /\ queue' = Append(queue, Signal("finished_restoring", t, success))
       IN  IF self.left = 0 THEN returned(self.phase = "wrote")
           ELSE IF cancelled(self) THEN returned(FALSE)
           ELSE /\ threads' = [threads EXCEPT ![t].polled = TRUE]
                /\ queue' = queue
    /\ UnchangedByWorker

\* FileRestorer.restore_files: the body of the loop writes the file of one
\* block. blocks is history: the files written, by their number.
RestoreWriteFile(t) ==
    /\ threads[t].kind = "restore"
    /\ threads[t].running
    /\ threads[t].polled
    /\ threads' = [threads EXCEPT ![t].left = @ - 1, ![t].phase = "wrote",
                                  ![t].blocks = Append(@, Len(@) + 1),
                                  ![t].polled = FALSE]
    /\ queue' = queue
    /\ UnchangedByWorker

\* One step of the worker thread t.
WorkerStep(t) ==
    /\ t \in ThreadIds
    /\ \/ WalkNext(t) \/ WalkBody(t) \/ ScanRest(t) \/ ScanDone(t)
       \/ MergeStep(t)
       \/ RestorePoll(t) \/ RestoreWriteFile(t)

InitCancel ==
    /\ items = <<>>
    /\ checkState = <<>>
    /\ updating = FALSE
    /\ lastOp = "build"
    /\ lastItem = 0
    /\ passes = NoPasses
    /\ pc = "cancel"
    /\ blocks = <<>>
    /\ visited = {}
    /\ manifest = <<>>
    /\ NoText
    /\ Constructed
    /\ fs = MergeFs
    /\ ignore_list = <<>>
    /\ include_hidden = FALSE
    /\ probe = <<>>
    /\ ignored = <<>>

NextCancel ==
    \/ root_directory = None /\ Idle /\ browse_folder(ScanRoot)
    \/ processor_thread = 0 /\ Idle /\ merge_files
    \/ \E left \in 0..MaxCancelFiles :
         restorer_thread = 0 /\ Idle /\ start_file_restoration(left)
    \/ cancel_processing
    \/ \E t \in ThreadIds : WalkNext(t)
    \/ \E t \in ThreadIds : WalkBody(t)
    \/ \E t \in ThreadIds : ScanRest(t)
    \/ \E t \in ThreadIds : ScanDone(t)
    \/ \E t \in ThreadIds : MergeStep(t)
    \/ \E t \in ThreadIds : RestorePoll(t)
    \/ \E t \in ThreadIds : RestoreWriteFile(t)
    \/ on_tree_data_chunk
    \/ on_tree_loaded
    \/ on_tree_loading_finished
    \/ on_merge_finished
    \/ on_restore_finished

SpecCancel ==
    /\ InitCancel
    /\ [][NextCancel]_vars
    /\ \A t \in 1..MaxThreads : WF_vars(WorkerStep(t))

\* ------------------------------------------------------------------- C30
\* The worker t has its flag set and takes a step.
CancelledStep(t) ==
    /\ threads[t].running
    /\ threads[t].should_cancel
    /\ threads'[t] # threads[t]

\* What run emits when restore_files returns in this step.
Returns(t, success) ==
    /\ ~threads'[t].running
    /\ queue' = Append(queue, Signal("finished_restoring", t, success))

IsPrefix(a, b) == Len(a) <= Len(b) /\ a = SubSeq(b, 1, Len(a))

\* A merge whose flag is set begins no file block; the one block it may still
\* write is that of the iteration that had passed its poll.
MergePrompt(t) ==
    (threads[t].kind = "merge" /\ CancelledStep(t) /\ ~threads[t].polled)
      => threads'[t].blocks = threads[t].blocks

\* A scan whose flag is set collects no entry and emits no chunk; os.walk
\* lists at most one directory more, the one it is asked for before the flag
\* is read.
ScanPrompt(t) ==
    (threads[t].kind = "scan" /\ CancelledStep(t))
      => /\ threads'[t].tree_data = threads[t].tree_data
         /\ queue' = queue
         /\ Len(threads'[t].listed) <= Len(threads[t].listed) + 1
         /\ threads[t].polled
              => threads'[t].listed = threads[t].listed /\ threads'[t].phase = "rest"

\* Every restore keeps the files it has written.
RestoreKeeps(t) ==
    threads[t].kind = "restore" => IsPrefix(threads[t].blocks, threads'[t].blocks)

\* A restore whose flag is set when it reads it writes no further file and
\* returns a failure.
RestorePromptAtPoll(t) ==
    (threads[t].kind = "restore" /\ CancelledStep(t) /\ ~threads[t].polled)
      => /\ threads'[t].blocks = threads[t].blocks
         /\ threads[t].left > 0 => Returns(t, FALSE)

\* A restore whose flag is set returns a failure, whenever the flag was set.
RestoreAlwaysFails(t) ==
    (threads[t].kind = "restore" /\ CancelledStep(t) /\ ~threads'[t].running)
      => Returns(t, FALSE)

Flagged(t) == t \in ThreadIds /\ threads[t].should_cancel
Stopped(t) == t \in ThreadIds /\ ~threads[t].running

\* C30 as stated: once the flag of a worker is set, a merge begins no further
\* file block, a restore writes no further file, keeps the files written and
\* returns a failure, a scan collects nothing of a further directory, and the
\* worker ends.
C30_CancelledRestoreFails ==
    /\ [][\A t \in ThreadIds :
            MergePrompt(t) /\ ScanPrompt(t) /\ RestoreKeeps(t)
            /\ RestorePromptAtPoll(t) /\ RestoreAlwaysFails(t)]_vars
    /\ \A t \in 1..MaxThreads : Flagged(t) ~> Stopped(t)

\* C30, amended: the flag is read at the head of each iteration. Once it is set
\* a merge begins no further file block and a restore writes no further file,
\* beyond the one of the iteration that had passed its poll; a restore that
\* reads the flag with a block left returns a failure, and one whose flag is
\* set after its last poll returns its success; the files written stay; a
\* scan collects no further entry, while os.walk lists at most one directory
\* more; and the worker ends.
C30_CancellationAtPolls ==
    /\ [][\A t \in ThreadIds :
            MergePrompt(t) /\ ScanPrompt(t) /\ RestoreKeeps(t)
            /\ RestorePromptAtPoll(t)]_vars
    /\ \A t \in 1..MaxThreads : Flagged(t) ~> Stopped(t)

\* A merge was cancelled after one of its two blocks and a restore after one
\* of its files, with a block left; both have ended.
C30_Witness ==
    /\ pc = "cancel"
    /\ \E t, u \in ThreadIds :
         /\ threads[t].kind = "merge" /\ Flagged(t) /\ Stopped(t)
         /\ Len(threads[t].blocks) = 1
         /\ Cardinality({n \in Shown : ~objs[n].is_dir /\ objs[n].check = Checked}) = 2
         /\ threads[u].kind = "restore" /\ Flagged(u) /\ Stopped(u)
         /\ threads[u].blocks # <<>> /\ threads[u].left > 0

\* A scan was cancelled after the body of its loop for the folder: os.walk
\* listed the directory below it, and nothing of that directory was collected.
C30_WitnessScan ==
    /\ pc = "cancel"
    /\ \E t \in ThreadIds :
         /\ threads[t].kind = "scan" /\ Flagged(t) /\ Stopped(t)
         /\ Len(threads[t].listed) = 2
         /\ Len(threads[t].tree_data) = 1

\* --------------------------------------------------- every way to select
\* SpecStates: the selection of a tree of at most MaxTextNodes items is edited
\* by clicks, by the two buttons and by a persisted selection, in any order.
NextStates ==
    \/ \E item \in ItemIds(items) : ItemClicked(item)
    \/ select_all_files
    \/ select_no_files
    \/ \E selected_files \in SelectionLists(items, checkState) :
         ApplySelection(selected_files)

SpecStates == InitSelection /\ [][NextStates]_vars

\* ------------------------------------------------------------------- C36
\* C36: after any sequence of clicks, select all, select none and applied
\* selections a file is Checked or Unchecked, never PartiallyChecked, and only
\* an item that has children is PartiallyChecked.
C36_FilesAreTwoState ==
    pc = "select" =>
      \A n \in DOMAIN items :
        /\ ~items[n].is_dir => checkState[n] \in {Checked, Unchecked}
        /\ checkState[n] = PartiallyChecked => HasChild(items, n)

\* A selection was applied that leaves one file of a directory Checked and
\* another Unchecked: the directory is PartiallyChecked, the files are not.
C36_Witness ==
    /\ pc = "select"
    /\ lastOp = "apply"
    /\ \E d, f, g \in DOMAIN items :
         /\ items[d].is_dir /\ checkState[d] = PartiallyChecked
         /\ items[f].parent = d /\ ~items[f].is_dir /\ checkState[f] = Checked
         /\ items[g].parent = d /\ ~items[g].is_dir /\ checkState[g] = Unchecked

\* ------------------------------------------------------------------- C35
\* The item n is reached from the root through directories that are not
\* Unchecked.
Rendered(its, cs, n) == \A d \in Ancestors(its, n) : cs[d] # Unchecked

LinesOf(n) == {k \in DOMAIN manifest : manifest[k].name = n}

\* C35: the manifest of a merge holds exactly one line for every item reached
\* from the root through directories that are not Unchecked and no line for
\* any other item; the line carries the glyph of the item's state; so an
\* Unchecked directory has its one line and none of its descendants has one,
\* and every child of a rendered directory that is not Unchecked has one.
C35_ManifestRendering ==
    pc = "merged" =>
      /\ \A n \in DOMAIN items :
           Cardinality(LinesOf(n)) = IF Rendered(items, checkState, n) THEN 1 ELSE 0
      /\ \A k \in DOMAIN manifest :
           LET state == checkState[manifest[k].name] IN
           /\ state = Checked <=> manifest[k].status_icon = ICON_CHECKED
           /\ state = PartiallyChecked <=> manifest[k].status_icon = ICON_PARTIAL
           /\ state = Unchecked <=> manifest[k].status_icon = ICON_UNCHECKED
      /\ \A d \in DOMAIN items :
           (items[d].is_dir /\ LinesOf(d) # {}) =>
             \A c \in DOMAIN items :
               items[c].parent = d => (LinesOf(c) # {} <=> checkState[d] # Unchecked)

\* A merge of a tree with a PartiallyChecked directory that holds a Checked
\* file and an Unchecked directory with a child of its own.
C35_Witness ==
    /\ pc = "merged"
    /\ \E p, d, c, f \in DOMAIN items :
         /\ checkState[p] = PartiallyChecked /\ LinesOf(p) # {}
         /\ items[d].parent = p /\ checkState[d] = Unchecked /\ LinesOf(d) # {}
         /\ items[c].parent = d /\ LinesOf(c) = {}
         /\ items[f].parent = p /\ checkState[f] = Checked /\ LinesOf(f) # {}

\* ------------------------------------------------------------------- C34
\* C34: when the user presses the cancel button, the flag of every worker
\* that is running at that moment is set.
C34_CancelReachesEveryWorker ==
    [][cancel_processing =>
         \A t \in ThreadIds : threads[t].running => threads'[t].should_cancel]_vars

\* ------------------------------------------------------------------- C33
\* The entries of the folder on disk: the paths os.walk can list.
EntriesOnDisk ==
    UNION {{dirpath \o <<name>> :
              name \in Range(fs[dirpath].dirs) \cup Range(fs[dirpath].files)}
           : dirpath \in DOMAIN fs}

\* The items of the tree that stand for path.
NodesOf(path) == {k \in Shown : objs[k].full_path = path}

\* The places where item k is attached: <<parent, index>>.
PlacesOf(k) ==
    {pl \in UNION {{<<p, i>> : i \in DOMAIN tree_kids[p]} : p \in DOMAIN tree_kids} :
       tree_kids[pl[1]][pl[2]] = k}

\* The tree mirrors the folder: every entry that is not ignored, and lies under
\* no ignored directory, has exactly one item, attached once and under the item
\* of its directory (under the root for an entry of the folder itself); no
\* item is left unattached and nothing waits in pending_items.
MirrorsFolder ==
    /\ \A path \in EntriesOnDisk :
         ~IgnoredOnWay(path) =>
           /\ Cardinality(NodesOf(path)) = 1
           /\ \A k \in NodesOf(path) :
                /\ objs[k].is_dir = (path \in DOMAIN fs)
                /\ \E pl \in PlacesOf(k) :
                     /\ PlacesOf(k) = {pl}
                     /\ IF Len(path) = Len(ScanRoot) + 1 THEN pl[1] = 0
                        ELSE pl[1] \in NodesOf(SubSeq(path, 1, Len(path) - 1))
    /\ \A k \in DOMAIN objs : k \in Shown /\ ~objs[k].deleted
    /\ pending_items = <<>>

C33_AcrossChunks ==
    (pc = "live" /\ threads # <<>> /\ queue = <<>>
       /\ \A t \in ThreadIds : ~threads[t].running)
      => MirrorsFolder

\* ------------------------------- restore: where the directories and files land
\* Path texts are sequences of atoms: names, the parent entry and the separator.
PATHSEP == "/"
DOTDOT == ".."

\* Largest number of components of the path of a block header.
MaxParts == 3

\* The names a component of a header path is drawn from.
PartNames == {"a", "b", DOTDOT}

\* FileRestorer.output_directory, an absolute path.
output_directory == <<PATHSEP, "out">>

\* The mark of a directory among the entries of the file system.
DIRECTORY == <<"(directory)">>

\* os.path.isabs
isabs(path) == path # <<>> /\ path[1] = PATHSEP

\* os.path.join(a, b): an absolute b replaces a.
join(a, b) ==
    IF isabs(b) THEN b
    ELSE IF a = <<>> \/ a[Len(a)] = PATHSEP THEN a \o b
    ELSE a \o <<PATHSEP>> \o b

\* The position of the last separator of a path, 0 when there is none.
LastSep(path) ==
    IF \E i \in DOMAIN path : path[i] = PATHSEP
    THEN CHOOSE i \in DOMAIN path :
           path[i] = PATHSEP /\ \A j \in DOMAIN path : path[j] = PATHSEP => j <= i
    ELSE 0

\* os.path.dirname of an absolute path
dirname(path) ==
    IF LastSep(path) <= 1 THEN <<PATHSEP>> ELSE SubSeq(path, 1, LastSep(path) - 1)

\* The names of a path, in order.
Components(path) == SelectSeq(path, LAMBDA x : x # PATHSEP)

\* Where the file system finds the names parts from the place at: the parent
\* entry leads one level up, and the root is its own parent.
RECURSIVE Resolved(_, _)
Resolved(parts, at) ==
    IF parts = <<>> THEN at
    ELSE IF Head(parts) = DOTDOT
    THEN Resolved(Tail(parts),
                  IF at = <<>> THEN at ELSE SubSeq(at, 1, Len(at) - 1))
    ELSE Resolved(Tail(parts), Append(at, Head(parts)))

\* The place an absolute path names: the names from the root down.
Location(path) == Resolved(Components(path), <<>>)

\* os.makedirs(path, exist_ok=True): the places made, parents first.
makedirs(path) ==
    {Resolved(SubSeq(Components(path), 1, k), <<>>) :
       k \in 1..Len(Components(path))} \ {<<>>}

\* The directories among the entries dsk; the root always exists.
DirsOf(dsk) == {<<>>} \cup {l \in DOMAIN dsk : dsk[l] = DIRECTORY}

\* One pass of the loop of restore_files over the blocks bl: join, makedirs,
\* open for writing (which raises on a directory), write.
RECURSIVE WriteUnder(_, _)
WriteUnder(st, bl) ==
    IF bl = <<>> THEN st
    ELSE
      With(join(output_directory, Head(bl).path), LAMBDA full_path :
        With([l \in DOMAIN st.disk \cup makedirs(dirname(full_path)) |->
                IF l \in DOMAIN st.disk THEN st.disk[l] ELSE DIRECTORY],
             LAMBDA made :
          IF Location(full_path) \in DirsOf(made)
          THEN WriteUnder([st EXCEPT !.disk = made], Tail(bl))
          ELSE WriteUnder(
                 [disk |-> [l \in DOMAIN made \cup {Location(full_path)} |->
                              IF l = Location(full_path) THEN Head(bl).content
                              ELSE made[l]],
                  restored_count |-> st.restored_count + 1],
                 Tail(bl))))

\* FileRestorer.restore_files of the text t into output_directory, on a file
\* system that holds the root only.
restore_files_under(t) ==
    LET content_start == FindMarker(t)
        failed == [success |-> FALSE, total_files |-> 0, restored_count |-> 0,
                   disk |-> <<>>, md |-> FALSE, message |-> MSG_MARKER,
                   from |-> {}]
    IN  IF content_start = 0 THEN failed
        ELSE With(SubSeq(t, content_start, Len(t)), LAMBDA relevant_content :
               With(extract_file_blocks(relevant_content), LAMBDA file_blocks :
                 IF file_blocks = <<>>
                 THEN [failed EXCEPT !.md = LooksMarkdown(relevant_content),
                                     !.message = MSG_EMPTY]
                 ELSE With(WriteUnder(
                             [disk |-> [l \in makedirs(output_directory)
                                          |-> DIRECTORY],
                              restored_count |-> 0],
                             file_blocks), LAMBDA st :
                      [success |-> TRUE, total_files |-> Len(file_blocks),
                       restored_count |-> st.restored_count,
                       disk |-> st.disk,
                       md |-> LooksMarkdown(relevant_content),
                       message |-> MSG_DONE,
                       from |-> {file_blocks[i].start + content_start - 1 :
                                   i \in DOMAIN file_blocks}])))

\* The names of 1..MaxParts components, separated, with or without a leading
\* separator.
RECURSIVE Separated(_)
Separated(parts) ==
    IF Len(parts) <= 1 THEN parts
    ELSE <<Head(parts), PATHSEP>> \o Separated(Tail(parts))

HeaderPaths ==
    UNION {{Separated(ps) : ps \in [1..k -> PartNames]}
           \cup {<<PATHSEP>> \o Separated(ps) : ps \in [1..k -> PartNames]} :
             k \in 1..MaxParts}

\* A merge file with one block, framed as the merger frames it, whose header
\* names the path path.
MergeFileNaming(format_type, path) ==
    write_header(format_type)
    \o get_section_header(CONTENT_MARKER, format_type, TRUE)
    \o (IF format_type = "md"
        THEN <<NL, MD_HEADING, "a", NL, NL, MD_PATH, TICK>> \o path
             \o <<TICK, NL, NL>>
        ELSE <<NL, SEP, NL, FILE_KEY, "a", NL, PATH_KEY>> \o path
             \o <<NL, SEP, NL, NL>>)
    \o write_file_content(format_type, DefaultText)

InitConfine ==
    /\ items \in {its \in TreeShapes : Len(its) = 1}
    /\ checkState = [n \in DOMAIN items |-> Checked]
    /\ updating = FALSE
    /\ lastOp = "build"
    /\ lastItem = 0
    /\ passes = NoPasses
    /\ pc = "merged"
    /\ blocks = <<>>
    /\ visited = {}
    /\ manifest = <<>>
    /\ content = [f \in FilesOf(items) |-> DefaultText]
    /\ format \in {"txt", "md"}
    /\ artifact \in {MergeFileNaming(format, path) : path \in HeaderPaths}
    /\ disk = <<>>
    /\ outcome = NoOutcome
    /\ NoFaults
    /\ NoApp

\* start_file_restoration of a merge file into output_directory, run to its
\* end.
RestoreUnder ==
    /\ pc = "merged"
    /\ \E r \in {restore_files_under(artifact)} :
         /\ disk' = r.disk
         /\ outcome' = [success |-> r.success, total_files |-> r.total_files,
                        restored_count |-> r.restored_count, md |-> r.md,
                        message |-> r.message, from |-> r.from]
    /\ dest_created' = (outcome'.success)
    /\ pc' = "restored"
    /\ UNCHANGED <<treeVars, blocks, visited, manifest, content, format, artifact, appVars>>
    /\ UNCHANGED <<max_size_spin, unreadable, written, merge_file, unwritable>>

NextConfine == RestoreUnder

SpecConfine == InitConfine /\ [][NextConfine]_vars

\* A place lies under the destination: the destination itself or below it.
UnderDestination(l) ==
    /\ Len(l) >= Len(Location(output_directory))
    /\ SubSeq(l, 1, Len(Location(output_directory))) = Location(output_directory)

\* The path the header of the restored merge file names.
HeaderPathOf(t) ==
    extract_file_blocks(SubSeq(t, FindMarker(t), Len(t)))[1].path

\* C32: restore is confined to its destination: whatever the merge file says,
\* every directory made and every file written by a restore lies under the
\* destination, also when the path of a block is absolute or has parent
\* components.
C32_RestoreConfined ==
    pc = "restored" => \A l \in DOMAIN disk : UnderDestination(l)

\* A restore of a block whose path has a parent component or is absolute has
\* written its file.
C32_Escapes ==
    /\ pc = "restored"
    /\ outcome.restored_count = 1
    /\ \/ isabs(HeaderPathOf(artifact))
       \/ DOTDOT \in Range(HeaderPathOf(artifact))
    /\ \E l \in DOMAIN disk : disk[l] = DefaultText /\ ~UnderDestination(l)

\* A restore of a block whose path stays below the destination has written
\* its file there.
C32_StaysBelow ==
    /\ pc = "restored"
    /\ outcome.restored_count = 1
    /\ \A l \in DOMAIN disk : UnderDestination(l)
    /\ \E l \in DOMAIN disk : disk[l] = DefaultText /\ Len(l) = MaxParts + 1

\* ------------------------------------------ projects: the selection they save
\* The files below root, by their path relative to it.
SavedPaths(root) ==
    UNION {{SubSeq(d, Len(root) + 1, Len(d)) \o <<fs[d].files[k]>> :
              k \in 1..Len(fs[d].files)} :
             d \in {x \in DOMAIN fs : Len(x) >= Len(root)
                                       /\ SubSeq(x, 1, Len(root)) = root}}

\* What json.load gives for the project files on disk: a folder that exists
\* and files of it that were selected when the project was saved. The other
\* settings of the project are the ones the window has.
ProjectFiles ==
    UNION {{[root_directory |-> root, selected_files |-> sel] :
              sel \in SUBSET SavedPaths(root)} : root \in RootDirs}

\* FileMergerApp.open_project with a project file chosen in the dialog.
open_project(project_data) ==
    /\ project_data.selected_files \subseteq SavedPaths(project_data.root_directory)
    /\ start_tree_loading(project_data.root_directory)
    /\ pending_selection' = [selected_files |-> project_data.selected_files,
                             root_directory |-> project_data.root_directory,
                             scan |-> tree_loader_thread']

NextProject ==
    \/ \E project_data \in ProjectFiles : open_project(project_data)
    \/ \E folder_selected \in RootDirs : browse_folder(folder_selected)
    \/ refresh_tree
    \/ cancel_processing
    \/ \E t \in ThreadIds : ScanWalk(t)
    \/ \E t \in ThreadIds : ScanRest(t)
    \/ \E t \in ThreadIds : ScanDone(t)
    \/ on_tree_data_chunk
    \/ on_tree_loaded
    \/ on_tree_loading_finished

SpecProject == InitApp /\ [][NextProject]_vars

\* finalize_tree_building applies the selection that waits.
AppliesPending ==
    /\ on_tree_loaded
    /\ pending_selection.selected_files # {}
    /\ pending_selection' = NoSelection

\* C31: the selection a project saved is applied only to the tree its own scan
\* built: when finalize_tree_building applies it, the scan that is finalized is
\* the one open_project started, or at least a scan of the project's folder;
\* it is never applied to the tree of a later scan of another folder.
C31_SelectionOnOwnTree ==
    [][AppliesPending =>
         \/ Head(queue).from = pending_selection.scan
         \/ threads[Head(queue).from].root_directory
              = pending_selection.root_directory]_vars

\* The selection of a project was applied at the end of the project's own scan.
C31_AppliedByOwnScan ==
    /\ pending_selection = NoSelection
    /\ \E k \in Shown : ~objs[k].is_dir /\ objs[k].check = Unchecked
    /\ \E k \in Shown : ~objs[k].is_dir /\ objs[k].check = Checked

\* The selection of a project whose scan was cancelled was applied to the tree
\* of another folder: no project was opened for that folder, and its file is
\* unchecked.
C31_AppliedToOtherTree ==
    /\ pending_selection = NoSelection
    /\ queue = <<>>
    /\ \E t \in ThreadIds : threads[t].should_cancel
    /\ \E k \in Shown : ~objs[k].is_dir /\ objs[k].check = Unchecked
                        /\ ~\E j \in Shown : ~objs[j].is_dir /\ objs[j].check = Checked

====
